---- MODULE Spec2Model ----
(***************************************************************************)
(* Verification model of the video-engine effect pipeline:                 *)
(*   - the frame buffer pool      (src/core/memory_manager.c)              *)
(*   - the effect chain and pass  (src/effects/effects_engine.c)           *)
(*   - the filters the pass dispatches to (src/filters/*.c), for the       *)
(*     parameter values whose arithmetic is exact in integers.             *)
(* Memory is modelled at byte granularity; pointers are addresses.         *)
(***************************************************************************)
EXTENDS Integers, Sequences, FiniteSets, TLC

\* ------------------------------------------------------------------ bounds
\* Blocks of the pool (memory_pool_create's block_count; the engine uses 8).
TotalBlocks == 3
\* Longest chain the model builds (the code's own limit is MAX_EFFECTS_CHAIN).
MaxChain == 2
\* Widest frame the model processes, in pixels.
MaxWidth == 2
\* Processing calls the model follows in one run.
MaxPasses == 2
\* Longest chain that is built from every kind of effect.
MaxSortLen == 4
\* Of these, the calls of effects_process_frame.
MaxFrames == 1

\* --------------------------------------------------------------- constants
MAX_EFFECTS_CHAIN == 32
\* Bytes per RGBA pixel (the "* 4" of every buffer size in the code).
BytesPerPixel == 4
\* Bytes of a pool block (memory_pool_create's block_size): six RGBA pixels,
\* so a block is longer than the distance from the arena to the occupancy
\* array (HeapGaps), as the engine's 1920 * 1080 * 4 bytes are.
BlockSize == 6 * BytesPerPixel
\* pool->pool_size = block_size * block_count.
PoolSize == BlockSize * TotalBlocks
\* The null pointer, and the address malloc returned for the arena.
NULL == 0
PoolBase == 16

Max(a, b) == IF a > b THEN a ELSE b

Blocks == 0 .. (TotalBlocks - 1)

\* A byte or a field the program has not stored yet: what malloc left in a
\* buffer or a structure, or what the heap holds behind a buffer.  It stands
\* for every value of its type at once (the value differs from run to run
\* and from byte to byte): a result that holds Uninit is a result the code
\* does not determine.
Uninit == -1
\* What a holder of a block writes into it.
StaleByte == 85

VARIABLES
    pool_mem,       \* pool->pool[0 .. pool_size-1] and the heap behind it
    used_blocks,    \* pool->used_blocks[0 .. total_blocks-1]
    used_count,     \* pool->used_count
    total_blocks,   \* pool->total_blocks
    effects,        \* chain->effects[0 .. count-1] (count is Len(effects))
    sorted,         \* chain->sorted
    temp_frames_allocated,  \* chain->temp_frames_allocated
    temp_frame_1,   \* *chain->temp_frame_1 (data pointer and metadata)
    temp_frame_2,   \* *chain->temp_frame_2
    chain_freed,    \* effect_chain_destroy has freed the chain
    frames_processed,       \* engine->frames_processed
    last_process_time_ms,   \* engine->last_process_time_ms
    job,            \* the export job (export_job_t) and its encoder
    heap,           \* the bytes of the frame buffers transitions work on
    tcalls,         \* the transition calls made: arguments and loop position
    tstart,         \* history: the frame buffers as the callers filled them
    ext_held,       \* block pointers direct memory_pool_alloc callers hold
    passes,         \* history: processing calls made so far
    ever_freed,     \* history: block b was marked free by memory_pool_free
    call            \* history: the last call made, its arguments and result

poolVars == <<pool_mem, used_blocks, used_count, total_blocks>>
chainVars == <<effects, sorted, temp_frames_allocated, temp_frame_1, temp_frame_2,
               chain_freed>>
engineVars == <<frames_processed, last_process_time_ms>>
vars == <<pool_mem, used_blocks, used_count, total_blocks,
          effects, sorted, temp_frames_allocated, temp_frame_1, temp_frame_2,
          chain_freed, frames_processed, last_process_time_ms, job, heap, tcalls,
          tstart, ext_held, passes, ever_freed, call>>
transVars == <<heap, tcalls, tstart>>

\* ==================================================================== pool

PopCount(flags) == Cardinality({b \in DOMAIN flags : flags[b]})

BlockStart(b) == PoolBase + b * BlockSize

\* ptr - pool->pool
PtrOffset(ptr) == ptr - PoolBase

\* The range check of memory_pool_free: the pointer is non-null and its
\* offset lies inside the arena.
FreeInRange(ptr, total) ==
    /\ ptr # NULL
    /\ PtrOffset(ptr) >= 0
    /\ PtrOffset(ptr) < PoolSize
    /\ (PtrOffset(ptr) \div BlockSize) < total

\* block_index = (int)(offset / pool->block_size)
FreeBlockIndex(ptr) == PtrOffset(ptr) \div BlockSize

\* The loop of memory_pool_alloc: the lowest index whose flag is clear,
\* -1 when the count says the pool is full or no flag is clear.
AllocIndexNoFullCheck(flags, count, total) ==
    IF \E b \in 0 .. (total - 1) : ~flags[b]
    THEN CHOOSE b \in 0 .. (total - 1) :
            /\ ~flags[b]
            /\ \A c \in 0 .. (total - 1) : ~flags[c] => b <= c
    ELSE 0
AllocIndex(flags, count, total) ==
    IF count >= total THEN -1
    ELSE IF \E b \in 0 .. (total - 1) : ~flags[b]
         THEN CHOOSE b \in 0 .. (total - 1) :
                 /\ ~flags[b]
                 /\ \A c \in 0 .. (total - 1) : ~flags[c] => b <= c
         ELSE -1

\* memory_pool_alloc on the pool P = [mem, used, count, total]:
\* the pool afterwards and the pointer returned.
PoolAlloc(P) ==
    LET i == AllocIndex(P.used, P.count, P.total) IN
    IF i = -1
    THEN [pool |-> P, ptr |-> NULL]
    ELSE [pool |-> [P EXCEPT !.used[i] = TRUE, !.count = P.count + 1],
          ptr |-> BlockStart(i)]

\* memset(ptr, 0, n) / memcpy(ptr, bytes, n) from an address of the arena:
\* the bytes are stored, also those that fall behind the arena; MemOverrun
\* is how many fall behind it.
MemWrite(mem, off, bytes) ==
    [i \in DOMAIN mem |->
        IF i >= off /\ i < off + Len(bytes) THEN bytes[i - off + 1] ELSE mem[i]]
MemOverrun(off, n) == Max(0, off + n - PoolSize)
Zeros(n) == [k \in 1 .. n |-> 0]

\* The decision of memory_pool_free: does the call release a block?
FreeReleasesAlways(flags, ptr, total) == FreeInRange(ptr, total)
FreeReleases(flags, ptr, total) ==
    /\ FreeInRange(ptr, total)
    /\ flags[FreeBlockIndex(ptr)]

\* memory_pool_free on the pool P, as far as the arena and the pool record
\* go: the flag of the block the offset falls in is cleared, the count
\* decremented, and block_size bytes are zeroed starting AT ptr.
PoolFree(P, ptr) ==
    IF FreeReleases(P.used, ptr, P.total)
    THEN [pool |-> [mem |-> MemWrite(P.mem, PtrOffset(ptr), Zeros(BlockSize)),
                    used |-> [P.used EXCEPT ![FreeBlockIndex(ptr)] = FALSE],
                    count |-> P.count - 1,
                    total |-> P.total],
          overrun |-> MemOverrun(PtrOffset(ptr), BlockSize)]
    ELSE [pool |-> P, overrun |-> 0]

\* A write of k bytes past the end of the arena is a heap overflow, undefined
\* behaviour: what it hits depends on where malloc put the arena and calloc
\* the occupancy array (memory_pool_create), and that differs from heap to
\* heap.  HeapGaps are the distances from the arena's end to used_blocks[0]
\* when the array lies behind the arena.  The arena's chunk is pool_size
\* bytes plus the 8-byte size field, rounded up to the allocator's 16-byte
\* granularity; on a fresh heap the chunk of used_blocks starts where it
\* ends (8 bytes behind an arena of 72 bytes), and when the arena takes the
\* chunk a destroyed pool of the same size gave back, the array lies behind
\* the 32-byte chunk of the destroyed pool's array (40 bytes).
HeapGaps ==
    {((PoolSize + 8 + 15) \div 16) * 16 - PoolSize + reused :
        reused \in {0, 32}}
\* The outcomes of the overflow for the flags and the process; `vals` are
\* the truth values the written bytes can stand for.
\*  - used_blocks lies g bytes behind the arena: the flags nearer than k
\*    bytes are overwritten;
\*  - used_blocks lies below the arena or farther than the write goes (an
\*    arena of the engine's size is a mapping of its own): no flag changes;
\*  - the write runs into a page that is not mapped: the process is killed
\*    (trap) with the flags as they were.
HeapOverflow(flags, k, vals) ==
    { [used |-> f, trap |-> FALSE] :
        f \in {flags} \cup
              { f \in [DOMAIN flags -> BOOLEAN] :
                  \E g \in HeapGaps :
                      \A b \in DOMAIN flags :
                          /\ b >= k - g => f[b] = flags[b]
                          /\ b < k - g  => f[b] \in vals } }
    \cup (IF k > 0 THEN {[used |-> flags, trap |-> TRUE]} ELSE {})

\* ================================================================== frames

\* video_frame_t.format: 0 = RGB, 1 = RGBA, 2 = YUV420.
FORMAT_RGB == 0
FORMAT_RGBA == 1
\* Rows of the frames the model processes.
FrameHeight == 1
\* INFINITY, the default end_time of the effect_create_* helpers.
Infinity == 1000

NullFrame ==
    [null |-> TRUE, data |-> <<>>, width |-> 0, height |-> 0, stride |-> 0,
     format |-> 0, timestamp |-> 0, frame_number |-> 0]

\* The test image: byte k of a w x h frame, a uint8_t; every pixel and
\* channel differs.
ImageByte(k) == (10 * k + 5) % 256
Image(w, h) == [k \in 1 .. (w * h * BytesPerPixel) |-> ImageByte(k)]

\* A caller's frame as js_effects_process_frame builds it: the buffer holds
\* width * height * 4 bytes and stride is width * 4 whatever the format says.
MakeFrame(w, h, fmt) ==
    [null |-> FALSE, data |-> Image(w, h), width |-> w, height |-> h,
     stride |-> w * BytesPerPixel, format |-> fmt, timestamp |-> 0,
     frame_number |-> 0]

\* The frames callers pass: RGBA frames of every width, and the widest
\* frame once more labelled RGB.
FrameInputs ==
    {MakeFrame(w, FrameHeight, FORMAT_RGBA) : w \in 1 .. MaxWidth}
    \cup {MakeFrame(MaxWidth, FrameHeight, FORMAT_RGB)}
\* Frames one pixel wider than a pool block holds: effects_process_frame_chain
\* and js_effects_process_frame take any width > 0 and height > 0, and
\* allocate_temp_frames computes frame_size without comparing it to the
\* block size.
OversizeWidth == (BlockSize \div BytesPerPixel) + 1
OversizeFrames ==
    {MakeFrame(w, FrameHeight, FORMAT_RGBA) : w \in {1, OversizeWidth}}

\* The heap bytes right behind the arena that a load starting inside the
\* arena can reach: a frame of the widest kind read from the last block.
\* They lie nearer than any of HeapGaps.  (What a store leaves farther
\* behind the arena is read by no call but through used_blocks.)
TailSize ==
    Max(0, Max(MaxWidth, OversizeWidth) * FrameHeight * BytesPerPixel
           - BlockSize)
MemOffsets == 0 .. (PoolSize + TailSize - 1)

\* The activation window the windowed effects get.
WindowStart == 1
WindowEnd == 2
\* Before the window, at its start, at its end, after it.
Timestamps == {WindowStart - 1, WindowStart, WindowEnd, WindowEnd + 1}

\* A scratch frame of the chain: its data pointer and metadata.  Before
\* allocate_temp_frames has run the chain's pointers are null (memset 0).
NullTemp == [data |-> NULL, width |-> 0, height |-> 0, stride |-> 0, format |-> 0]
\* A scratch frame structure as malloc(sizeof(video_frame_t)) returned it,
\* with its data pointer stored and nothing else: width, height, stride and
\* format hold what the heap held.
RawTemp(ptr) ==
    [data |-> ptr, width |-> Uninit, height |-> Uninit, stride |-> Uninit,
     format |-> Uninit]

\* ================================================================= effects

\* effect_t.  The parameter union is kept as the fields the model's effects
\* use: brightness (color_correction), ftype / intensity / fenabled (filter),
\* flip_horizontal / flip_vertical (transform), radius (blur).  The members
\* of the union share their bytes: ftype is what params.filter.type reads
\* and radius what (int)params.blur.radius reads, whichever member was
\* written.  A filter type 0 .. 7 read as a float is a denormal, so the
\* radius of an effect built with a filter type is 0.
Effect(type, priority, brightness, ftype, intensity, fenabled, fh, fv) ==
    [type |-> type, priority |-> priority, enabled |-> TRUE,
     start_time |-> 0, end_time |-> Infinity,
     brightness |-> brightness, ftype |-> ftype, intensity |-> intensity,
     fenabled |-> fenabled, flip_horizontal |-> fh, flip_vertical |-> fv,
     radius |-> 0]

EFFECT_PRIORITY_COLOR_CORRECTION == 1
EFFECT_PRIORITY_FILTER == 2
EFFECT_PRIORITY_TRANSFORM == 3
EFFECT_PRIORITY_TRANSITION == 4

\* effect_create_color_correction(brightness, 0, 0, 0)
effect_create_color_correction(brightness) ==
    Effect("COLOR_CORRECTION", EFFECT_PRIORITY_COLOR_CORRECTION,
           brightness, "NONE", 0, FALSE, 0, 0)

\* effect_create_filter(type, intensity)
effect_create_filter(ftype, intensity) ==
    Effect("FILTER", EFFECT_PRIORITY_FILTER, 0, ftype, intensity, TRUE, 0, 0)

\* The float radius read as the int params.filter.type: its IEEE-754 bit
\* pattern, which is none of the filter types 0 .. 7 for a radius >= 1.
FloatBits(radius) ==
    CASE radius = 1 -> "0x3F800000"
      [] radius = 2 -> "0x40000000"
      [] OTHER -> "0x40400000"

\* effect_create_blur(radius, gaussian): the structure is zeroed and
\* params.blur is written (radius, gaussian, iterations = 1).  Read through
\* params.filter, type is the radius's bit pattern, enabled (behind the
\* twelve bytes of blur_params_t) is still 0, and intensity, the bits of
\* iterations, is a denormal (0 here).
effect_create_blur(radius, gaussian) ==
    [Effect("FILTER", EFFECT_PRIORITY_FILTER, 0, FloatBits(radius), 0, FALSE,
            0, 0) EXCEPT !.radius = radius]

\* effect_create_transform(100, 0, flip_h, flip_v): scale 100 %, no
\* rotation, the full frame as crop window.
effect_create_transform(flip_h, flip_v) ==
    Effect("TRANSFORM", EFFECT_PRIORITY_TRANSFORM, 0, "NONE", 0, FALSE,
           flip_h, flip_v)

\* A transition descriptor (no helper builds one; the caller fills effect_t).
TransitionEffect ==
    Effect("TRANSITION", EFFECT_PRIORITY_TRANSITION, 0, "NONE", 0, FALSE, 0, 0)

\* The effects a caller adds: built by the helpers, then enabled and the
\* activation window set as the caller likes before effect_chain_add.
Disabled(e) == [e EXCEPT !.enabled = FALSE]
Windowed(e, from, until) == [e EXCEPT !.start_time = from, !.end_time = until]
EffectChoices ==
    {effect_create_color_correction(1),
     Disabled(effect_create_color_correction(1)),
     Windowed(effect_create_filter("BRIGHTNESS", -1), WindowStart, WindowEnd),
     effect_create_transform(1, 0),
     TransitionEffect}

\* ================================================================= filters
\* A filter works on the buffer of the frame structure it is handed: `bytes`
\* are the w * h * 4 bytes at frame->data, w / h / fmt the structure's fields.

\* clamp_uint8
clamp_uint8(v) == IF v < 0 THEN 0 ELSE IF v > 255 THEN 255 ELSE v

\* filter_color_correction with brightness b and every other parameter at
\* identity: frames that are not RGBA are left alone; otherwise each of R, G,
\* B becomes clamp_uint8((v/255 + b) * 255) and alpha is kept.  The float
\* arithmetic is exact for the brightness values the model uses (b = 1
\* saturates every channel to 255, b = -1 to 0, whatever the byte was; at
\* another brightness a byte nothing has stored gives one).
filter_color_correction(bytes, w, h, fmt, b) ==
    IF fmt # FORMAT_RGBA THEN bytes
    ELSE [k \in 1 .. Len(bytes) |->
            IF (k - 1) % BytesPerPixel = 3 THEN bytes[k]
            ELSE IF bytes[k] # Uninit THEN clamp_uint8(bytes[k] + 255 * b)
            ELSE IF b >= 1 THEN 255
            ELSE IF b <= -1 THEN 0
            ELSE Uninit]

\* filter_apply: nothing when params->enabled is false; FILTER_BRIGHTNESS
\* runs the color correction with brightness = intensity.
filter_apply(bytes, w, h, fmt, e) ==
    IF ~e.fenabled THEN bytes
    ELSE IF e.ftype = "BRIGHTNESS"
         THEN filter_color_correction(bytes, w, h, fmt, e.intensity)
         ELSE bytes

\* bytes[first] + bytes[first + step] + ... (n terms); not determined when
\* one of the terms is a byte nothing has stored.
RECURSIVE BoxSum(_, _, _, _)
BoxSum(bytes, first, step, n) ==
    IF n = 0 THEN 0
    ELSE LET rest == BoxSum(bytes, first + step, step, n - 1)
         IN IF bytes[first] = Uninit \/ rest = Uninit THEN Uninit
            ELSE bytes[first] + rest

\* One pass of the box blur: every channel becomes the integer mean of the
\* same channel over the pixels within `radius` along the row (horizontal)
\* or along the column, as far as they lie in the frame.
BlurPass(bytes, w, h, radius, horizontal) ==
    [k \in 1 .. Len(bytes) |->
        LET pix == (k - 1) \div BytesPerPixel
            ch  == (k - 1) % BytesPerPixel
            x   == pix % w
            y   == pix \div w
            at  == IF horizontal THEN x ELSE y
            len == IF horizontal THEN w ELSE h
            lo  == Max(0, at - radius)
            hi  == IF at + radius < len THEN at + radius ELSE len - 1
            first == IF horizontal THEN (y * w + lo) * BytesPerPixel + ch + 1
                     ELSE (lo * w + x) * BytesPerPixel + ch + 1
            step == IF horizontal THEN BytesPerPixel ELSE w * BytesPerPixel
            sum == BoxSum(bytes, first, step, hi - lo + 1)
        IN IF sum = Uninit THEN Uninit ELSE sum \div (hi - lo + 1)]

\* filter_blur: nothing for a frame that is not RGBA or a radius <= 0;
\* otherwise the horizontal pass, then the vertical pass on its result.
filter_blur(bytes, w, h, fmt, radius) ==
    IF fmt # FORMAT_RGBA \/ radius <= 0 THEN bytes
    ELSE BlurPass(BlurPass(bytes, w, h, radius, TRUE), w, h, radius, FALSE)

\* filter_transform at scale 100, rotation 0 and the full crop window: the
\* output pixel (x, y) is the source pixel at the mirrored coordinate (the
\* bilinear sample at an integer coordinate is the pixel itself).  There is
\* no format check: the buffer is always read as 4-byte pixels.
filter_transform(bytes, w, h, fmt, e) ==
    [k \in 1 .. Len(bytes) |->
        LET pix == (k - 1) \div BytesPerPixel
            ch  == (k - 1) % BytesPerPixel
            x   == pix % w
            y   == pix \div w
            sx  == IF e.flip_horizontal # 0 THEN w - 1 - x ELSE x
            sy  == IF e.flip_vertical # 0 THEN h - 1 - y ELSE y
        IN bytes[(sy * w + sx) * BytesPerPixel + ch + 1]]

\* The function the dispatch of effects_process_frame_chain calls for the
\* effect e: the switch on effect->type and, for filters, the switch on
\* effect->params.filter.type.  (No effect of the model has the type
\* FILTER_SHARPEN or FILTER_EDGE_DETECTION.)
DispatchTarget(e) ==
    CASE e.type = "COLOR_CORRECTION" -> "filter_color_correction"
      [] e.type = "FILTER" /\ e.ftype = "BLUR" -> "filter_blur"
      [] e.type = "FILTER" /\ e.ftype # "BLUR" -> "filter_apply"
      [] e.type = "TRANSFORM" -> "filter_transform"
      [] OTHER -> "none"

\* The dispatch of effects_process_frame_chain (switch on effect->type).
ApplyEffect(e, bytes, w, h, fmt) ==
    CASE e.type = "COLOR_CORRECTION" ->
            filter_color_correction(bytes, w, h, fmt, e.brightness)
      [] e.type = "FILTER" ->
            IF DispatchTarget(e) = "filter_blur"
            THEN filter_blur(bytes, w, h, fmt, e.radius)
            ELSE filter_apply(bytes, w, h, fmt, e)
      [] e.type = "TRANSFORM" -> filter_transform(bytes, w, h, fmt, e)
      [] OTHER -> bytes

\* Does the dispatched filter store into the buffer at all?  (The early
\* returns of the filters come before any store.)
EffectWrites(e, fmt) ==
    CASE e.type = "COLOR_CORRECTION" -> fmt = FORMAT_RGBA
      [] e.type = "FILTER" ->
            IF DispatchTarget(e) = "filter_blur"
            THEN fmt = FORMAT_RGBA /\ e.radius > 0
            ELSE e.fenabled /\ e.ftype = "BRIGHTNESS" /\ fmt = FORMAT_RGBA
      [] e.type = "TRANSFORM" -> TRUE
      [] OTHER -> FALSE

\* ============================================================== the chain

\* effect_compare: a->priority - b->priority.
effect_compare(a, b) == a.priority - b.priority

IsPrioritySorted(es) ==
    \A i \in 1 .. (Len(es) - 1) : effect_compare(es[i], es[i + 1]) <= 0

\* The entries of es in the priority tier p, in the order they stand in es.
Tier(es, p) == SelectSeq(es, LAMBDA e : e.priority = p)

\* s without its first entry equal to x.
RECURSIVE WithoutFirst(_, _)
WithoutFirst(s, x) ==
    IF s = <<>> THEN <<>>
    ELSE IF Head(s) = x THEN Tail(s)
    ELSE <<Head(s)>> \o WithoutFirst(Tail(s), x)

\* Every order the entries of s can be put in.
RECURSIVE Arrangements(_)
Arrangements(s) ==
    IF s = <<>> THEN {<<>>}
    ELSE UNION {{<<x>> \o r : r \in Arrangements(WithoutFirst(s, x))} :
                  x \in {s[i] : i \in 1 .. Len(s)}}

\* A qsort that returns without moving anything.
QsortLeavesOrder(es) == {es}

\* qsort(effects, count, sizeof(effect_t), effect_compare): some ordering
\* of the same entries that effect_compare accepts; the order of entries
\* that compare equal is unspecified.
QsortOutcomes(es) ==
    {a1 \o a2 \o a3 \o a4 :
        a1 \in Arrangements(Tier(es, EFFECT_PRIORITY_COLOR_CORRECTION)),
        a2 \in Arrangements(Tier(es, EFFECT_PRIORITY_FILTER)),
        a3 \in Arrangements(Tier(es, EFFECT_PRIORITY_TRANSFORM)),
        a4 \in Arrangements(Tier(es, EFFECT_PRIORITY_TRANSITION))}

\* effect_chain_sort: nothing when count <= 1 or the flag is set;
\* otherwise qsort and set the flag.  The set of [effects, sorted] outcomes.
ChainSortOutcomes(es, srt) ==
    IF Len(es) <= 1 \/ srt
    THEN {[effects |-> es, sorted |-> srt]}
    ELSE {[effects |-> r, sorted |-> TRUE] : r \in QsortOutcomes(es)}

\* ================================================================ the pass

\* memcpy / filter reads from an address of the arena: n bytes from offset
\* off, also from behind the arena's end, where they return what the heap
\* holds there (what an earlier store past the end put there, if any).
MemRead(mem, off, n) ==
    [k \in 1 .. n |->
        IF off + k - 1 \in DOMAIN mem THEN mem[off + k - 1] ELSE Uninit]

\* memcpy(dst, src, n) between two addresses of the arena.  When the two
\* ranges overlap the call is undefined and the bytes stored depend on how
\* the build's memcpy walks the ranges: through registers that hold the
\* whole source first (as memmove would), byte by byte upwards, or byte by
\* byte downwards.  Without overlap the three give the same bytes.
CopyOrders == {"buffered", "forward", "backward"}

\* The byte loop: byte i of the source is stored into byte i of the
\* destination, then the loop moves on by step, `left` bytes in all.
RECURSIVE CopyBytes(_, _, _, _, _, _)
CopyBytes(mem, dst, src, i, step, left) ==
    IF left = 0 THEN mem
    ELSE CopyBytes(MemWrite(mem, dst + i, MemRead(mem, src + i, 1)),
                   dst, src, i + step, step, left - 1)

Memcpy(mem, dst, src, n, order) ==
    IF order = "buffered" \/ ~(dst < src + n /\ src < dst + n)
    THEN MemWrite(mem, dst, MemRead(mem, src, n))
    ELSE IF order = "forward" THEN CopyBytes(mem, dst, src, 0, 1, n)
    ELSE CopyBytes(mem, dst, src, n - 1, -1, n)

\* allocate_temp_frames(chain, width, height) on the pool P with the chain's
\* scratch state: nothing when the scratch frames exist already; otherwise
\* two structures are malloc'ed and two memory_pool_alloc calls made,
\* failure when either returns NULL (the structures, their metadata never
\* stored, and whatever block was obtained stay with the chain, the flag
\* stays false), else the metadata is filled in from width and height.
allocate_temp_frames(P, allocated, T1, T2, width, height) ==
    IF allocated
    THEN [ok |-> TRUE, pool |-> P, allocated |-> TRUE, T1 |-> T1, T2 |-> T2]
    ELSE LET a1 == PoolAlloc(P)
             a2 == PoolAlloc(a1.pool)
         IN IF a1.ptr = NULL \/ a2.ptr = NULL
            THEN [ok |-> FALSE, pool |-> a2.pool, allocated |-> FALSE,
                  T1 |-> RawTemp(a1.ptr),
                  T2 |-> RawTemp(a2.ptr)]
            ELSE [ok |-> TRUE, pool |-> a2.pool, allocated |-> TRUE,
                  T1 |-> [data |-> a1.ptr, width |-> width, height |-> height,
                          stride |-> width * BytesPerPixel,
                          format |-> FORMAT_RGBA],
                  T2 |-> [data |-> a2.ptr, width |-> width, height |-> height,
                          stride |-> width * BytesPerPixel,
                          format |-> FORMAT_RGBA]]

\* The activation test of the loop: the effect is skipped when it is
\* disabled or when timestamp < start_time or timestamp > end_time.
IsApplied(e, t) ==
    e.enabled /\ ~(t < e.start_time \/ t > e.end_time)

\* The loop keeps: cur / temp, the names of the buffers current_frame and
\* temp_frame point to ("frame", "t1", "t2"); fdata, the caller's buffer;
\* mem, the arena; overrun, the bytes stored past the arena's end; log, one
\* entry per applied effect.  ctx holds what the loop only reads, and the
\* order in which the build's memcpy copies.
BufWidth(ctx, b) ==
    IF b = "frame" THEN ctx.F.width
    ELSE IF b = "t1" THEN ctx.T1.width ELSE ctx.T2.width
BufHeight(ctx, b) ==
    IF b = "frame" THEN ctx.F.height
    ELSE IF b = "t1" THEN ctx.T1.height ELSE ctx.T2.height
BufFormat(ctx, b) ==
    IF b = "frame" THEN ctx.F.format
    ELSE IF b = "t1" THEN ctx.T1.format ELSE ctx.T2.format
BufStride(ctx, b) ==
    IF b = "frame" THEN ctx.F.stride
    ELSE IF b = "t1" THEN ctx.T1.stride ELSE ctx.T2.stride
BufOffset(ctx, b) ==
    IF b = "t1" THEN PtrOffset(ctx.T1.data) ELSE PtrOffset(ctx.T2.data)

BufRead(ctx, st, b, n) ==
    IF b = "frame"
    THEN [k \in 1 .. n |->
            IF k <= Len(st.fdata) THEN st.fdata[k] ELSE Uninit]
    ELSE MemRead(st.mem, BufOffset(ctx, b), n)

BufWrite(ctx, st, b, bytes) ==
    IF b = "frame"
    THEN [st EXCEPT !.fdata =
            [k \in 1 .. Len(st.fdata) |->
                IF k <= Len(bytes) THEN bytes[k] ELSE st.fdata[k]]]
    ELSE [st EXCEPT
            !.mem = MemWrite(st.mem, BufOffset(ctx, b), bytes),
            !.overrun = Max(st.overrun,
                            MemOverrun(BufOffset(ctx, b), Len(bytes)))]

\* memcpy(dst->data, src->data, n) between two buffers of the pass.  The
\* caller's buffer is an object of its own and overlaps no scratch buffer;
\* two scratch buffers lie block_size bytes or more apart in the arena and
\* overlap when n is larger.
BufCopy(ctx, st, dst, src, n) ==
    IF dst = "frame" \/ src = "frame"
    THEN BufWrite(ctx, st, dst, BufRead(ctx, st, src, n))
    ELSE [st EXCEPT
            !.mem = Memcpy(st.mem, BufOffset(ctx, dst), BufOffset(ctx, src),
                           n, ctx.order),
            !.overrun = Max(st.overrun, MemOverrun(BufOffset(ctx, dst), n))]

\* "if (i > 0)": the copy of the working buffer into temp_frame, which
\* becomes the working buffer.  i is the C index of the effect.
CopiesFirst(i) == i > 0

\* A loop that keeps temp_frame where it is.
SwapTempNever(b) == b

\* "Swap temp frames for next iteration".
SwapTemp(b) == IF b = "t1" THEN "t2" ELSE "t1"

\* One iteration of the loop for effect es[i + 1] (C index i).
PassStep(ctx, st, i) ==
    LET e == ctx.es[i + 1] IN
    IF ~IsApplied(e, ctx.t) THEN st
    ELSE
        LET n0 == BufWidth(ctx, st.cur) * BufHeight(ctx, st.cur) * BytesPerPixel
            s1 == IF CopiesFirst(i)
                  THEN [BufCopy(ctx, st, st.temp, st.cur, n0)
                            EXCEPT !.cur = st.temp]
                  ELSE st
            w  == BufWidth(ctx, s1.cur)
            h  == BufHeight(ctx, s1.cur)
            f  == BufFormat(ctx, s1.cur)
            view == BufRead(ctx, s1, s1.cur, w * h * BytesPerPixel)
            s2 == IF EffectWrites(e, f)
                  THEN BufWrite(ctx, s1, s1.cur, ApplyEffect(e, view, w, h, f))
                  ELSE s1
        IN [s2 EXCEPT
              !.temp = SwapTemp(st.temp),
              !.log = Append(st.log,
                        [index |-> i, on |-> s1.cur, copied |-> CopiesFirst(i),
                         src |-> st.cur, dst |-> st.temp,
                         copied_bytes |-> IF CopiesFirst(i) THEN n0 ELSE 0,
                         width |-> w, height |-> h,
                         stride |-> BufStride(ctx, s1.cur), format |-> f])]

\* "for (int i = 0; i < chain->count; i++)".
RECURSIVE PassLoop(_, _, _)
PassLoop(ctx, st, i) ==
    IF i >= Len(ctx.es) THEN st
    ELSE PassLoop(ctx, PassStep(ctx, st, i), i + 1)

\* The loop and the copy back: "if (current_frame != frame) memcpy(
\* frame->data, current_frame->data, frame->width * frame->height * 4)".
CopyBack(ctx, st) ==
    LET n == ctx.F.width * ctx.F.height * BytesPerPixel
    IN IF st.cur # "frame"
       THEN BufCopy(ctx, st, "frame", st.cur, n)
       ELSE st
RunPass(ctx, mem) ==
    LET st0 == [cur |-> "frame", temp |-> "t1", fdata |-> ctx.F.data,
                mem |-> mem, overrun |-> 0, log |-> <<>>]
    IN CopyBack(ctx, PassLoop(ctx, st0, 0))

ThePool == [mem |-> pool_mem, used |-> used_blocks,
            count |-> used_count, total |-> total_blocks]

SetPool(P) ==
    /\ pool_mem' = P.mem
    /\ used_count' = P.count
    /\ total_blocks' = P.total

\* effects_process_frame_chain after allocate_temp_frames returned a: false
\* when it failed, else the loop, the copy back and true.
PassAfterAcquire(F, t, so, a, order) ==
    IF ~a.ok
    THEN [result |-> FALSE, effects |-> so.effects, sorted |-> so.sorted,
          pool |-> a.pool, allocated |-> a.allocated, T1 |-> a.T1, T2 |-> a.T2,
          fdata |-> F.data, overrun |-> 0, log |-> <<>>]
    ELSE LET st == RunPass([es |-> so.effects, t |-> t, F |-> F,
                            T1 |-> a.T1, T2 |-> a.T2, order |-> order],
                           a.pool.mem)
         IN [result |-> TRUE, effects |-> so.effects, sorted |-> so.sorted,
             pool |-> [a.pool EXCEPT !.mem = st.mem],
             allocated |-> a.allocated, T1 |-> a.T1, T2 |-> a.T2,
             fdata |-> st.fdata, overrun |-> st.overrun, log |-> st.log]

\* "if (!chain || !frame || chain->count == 0) return true;"
PassesThroughNoEmptyCheck(chain_null, F, count) == chain_null \/ F.null
PassesThrough(chain_null, F, count) == chain_null \/ F.null \/ count = 0

\* effects_process_frame_chain(chain, frame, timestamp) for one outcome
\* `so` of the sort and one copy order of memcpy: the result and everything
\* the call leaves behind.
ChainPass(chain_null, F, t, so, order) ==
    IF PassesThrough(chain_null, F, Len(effects))
    THEN [result |-> TRUE, effects |-> effects, sorted |-> sorted,
          pool |-> ThePool, allocated |-> temp_frames_allocated,
          T1 |-> temp_frame_1, T2 |-> temp_frame_2,
          fdata |-> F.data, overrun |-> 0, log |-> <<>>]
    ELSE PassAfterAcquire(F, t, so,
                          allocate_temp_frames(ThePool, temp_frames_allocated,
                                               temp_frame_1, temp_frame_2,
                                               F.width, F.height),
                          order)

\* The copy orders that can show in a pass on the frame F: the scratch
\* buffers are distinct blocks, so two of them overlap in a copy only when
\* the copy is longer than a block, and the copies of a pass are as long as
\* the frame or as the scratch frames' metadata say.  Where no copy can
\* overlap one order stands for all.
PassCopyOrders(F) ==
    IF \/ ~F.null /\ F.width * F.height * BytesPerPixel > BlockSize
       \/ /\ temp_frames_allocated
          /\ \E T \in {temp_frame_1, temp_frame_2} :
                T.width * T.height * BytesPerPixel > BlockSize
    THEN CopyOrders
    ELSE {"buffered"}

\* The state a ChainPass result r leaves (all but the caller's frame); o is
\* the outcome of the bytes the pass stored past the arena's end, one of
\* HeapOverflow(r.pool.used, r.overrun, BOOLEAN), pixel bytes being zero or
\* not.  A pass that is killed updates no counter and returns nothing.
SetAfterPass(r, o) ==
    /\ SetPool(r.pool)
    /\ used_blocks' = o.used
    /\ chain_freed' = chain_freed
    /\ effects' = r.effects
    /\ sorted' = r.sorted
    /\ temp_frames_allocated' = r.allocated
    /\ temp_frame_1' = r.T1
    /\ temp_frame_2' = r.T2

\* ============================================================== export job

\* The address effects_engine_create returned: the one engine of the model.
EnginePtr == 1
\* The output path callers configure; "NULL" stands for the null pointer.
NoPath == "NULL"
OutputPath == "out.webm"
\* The source the job is created for: frames per second and duration (s).
SourceFps == 1
ExportDuration == WindowEnd

\* A double that is a quotient, kept as <<numerator, denominator>>.
Ratio(n, d) == <<n, d>>

\* No encoder: job->encoder == NULL.
NoEncoder ==
    [null |-> TRUE, width |-> 0, height |-> 0, fps |-> 0, frame_count |-> 0,
     is_recording |-> FALSE, frame_buffer |-> <<>>, effects_engine |-> NULL,
     export_started |-> FALSE, export_progress |-> Ratio(0, 1),
     frames_exported |-> 0]

\* video_encoder_create(width, height, fps): NULL for a non-positive
\* argument, else a zeroed structure with the dimensions and a frame buffer
\* of width * height * 4 bytes as malloc left them.  effects_engine is
\* null after the memset.  (quality, bitrate, format and the encoder's own
\* memory pool are read by no call of the export path.)
video_encoder_create(width, height, fps) ==
    IF width <= 0 \/ height <= 0 \/ fps <= 0 THEN NoEncoder
    ELSE [NoEncoder EXCEPT
            !.null = FALSE, !.width = width, !.height = height, !.fps = fps,
            !.frame_buffer =
                [k \in 1 .. (width * height * BytesPerPixel) |-> Uninit]]

\* export_job_create(source_width, source_height, source_fps, duration)
export_job_create(source_width, source_height, source_fps, duration) ==
    [encoder |-> NoEncoder, effects_engine |-> NULL,
     source_width |-> source_width, source_height |-> source_height,
     source_fps |-> source_fps, source_duration |-> duration,
     output_width |-> source_width, output_height |-> source_height,
     output_fps |-> source_fps, output_path |-> NoPath,
     start_time |-> 0, end_time |-> duration, current_time |-> 0,
     total_frames |-> duration * source_fps, processed_frames |-> 0,
     is_running |-> FALSE, is_complete |-> FALSE, has_error |-> FALSE,
     error_message |-> ""]

Call(op, ptr, pre_used, chain_null, F, t, result, out, log) ==
    [op |-> op, ptr |-> ptr, pre_used |-> pre_used, chain_null |-> chain_null,
     frame_in |-> F, t |-> t, result |-> result, frame |-> out, log |-> log,
     added |-> <<>>, before |-> <<>>, trap |-> FALSE]
PoolCall(op, ptr, pre_used) ==
    Call(op, ptr, pre_used, FALSE, NullFrame, 0, TRUE, NullFrame, <<>>)
NoCall == PoolCall("none", NULL, FALSE)

\* The process runs until a call traps.
Running == ~call.trap

\* effects_engine_create (and export_job_create for the job): the pool is
\* created (the arena as malloc left it, occupancy array calloc'ed, count
\* zero), the chain is empty and marked sorted with no scratch frames, the
\* counters are zero after the memset.
Init ==
    /\ pool_mem = [i \in MemOffsets |-> Uninit]
    /\ used_blocks = [b \in Blocks |-> FALSE]
    /\ used_count = 0
    /\ total_blocks = TotalBlocks
    /\ effects = <<>>
    /\ sorted = TRUE
    /\ temp_frames_allocated = FALSE
    /\ temp_frame_1 = NullTemp
    /\ temp_frame_2 = NullTemp
    /\ chain_freed = FALSE
    /\ frames_processed = 0
    /\ last_process_time_ms = 0
    /\ job = export_job_create(MaxWidth, FrameHeight, SourceFps, ExportDuration)
    /\ heap = <<>>
    /\ tcalls = <<>>
    /\ tstart = <<>>
    /\ ext_held = {}
    /\ passes = 0
    /\ ever_freed = [b \in Blocks |-> FALSE]
    /\ call = NoCall

\* ------------------------------------------------------------ pool calls

\* A direct call of memory_pool_alloc.
memory_pool_alloc ==
    LET r == PoolAlloc(ThePool) IN
    /\ Running
    /\ SetPool(r.pool)
    /\ used_blocks' = r.pool.used
    /\ ext_held' = IF r.ptr = NULL THEN ext_held ELSE ext_held \cup {r.ptr}
    /\ call' = PoolCall("alloc", r.ptr, FALSE)
    /\ UNCHANGED <<job, transVars, chainVars, engineVars, passes, ever_freed>>

\* The pointers memory_pool_free is called with: null, just below and just
\* past the arena, every block start and the listed offsets inside a block.
MidOffsets == {BlockSize - 1}
FreePtrs ==
    {NULL, PoolBase - 1, PoolBase + PoolSize}
    \cup {BlockStart(b) + d : b \in Blocks, d \in {0} \cup MidOffsets}

\* A direct call of memory_pool_free(pool, ptr).  The flag is cleared and
\* the count decremented before the memset, whose bytes past the arena's
\* end have one of the outcomes of HeapOverflow.
memory_pool_free ==
    \E ptr \in FreePtrs :
        LET r == PoolFree(ThePool, ptr) IN
        \E o \in HeapOverflow(r.pool.used, r.overrun, {FALSE}) :
        /\ Running
        /\ SetPool(r.pool)
        /\ used_blocks' = o.used
        /\ ever_freed' =
              IF FreeReleases(used_blocks, ptr, total_blocks)
              THEN [ever_freed EXCEPT ![FreeBlockIndex(ptr)] = TRUE]
              ELSE ever_freed
        /\ ext_held' =
              IF FreeReleases(used_blocks, ptr, total_blocks)
              THEN ext_held \ {BlockStart(FreeBlockIndex(ptr))}
              ELSE ext_held
        /\ call' = [PoolCall("free", ptr,
                             IF FreeInRange(ptr, total_blocks)
                             THEN used_blocks[FreeBlockIndex(ptr)]
                             ELSE FALSE)
                        EXCEPT !.trap = o.trap]
        /\ UNCHANGED <<job, transVars, chainVars, engineVars, passes>>

\* The holder of a block fills it with pixel data (as the pass does with
\* memcpy into a scratch buffer).
BlockWrite ==
    \E ptr \in ext_held :
        /\ Running
        /\ pool_mem' = MemWrite(pool_mem, PtrOffset(ptr),
                                [k \in 1 .. BlockSize |-> StaleByte])
        /\ call' = PoolCall("write", ptr, TRUE)
        /\ UNCHANGED <<job, transVars, used_blocks, used_count, total_blocks, chainVars,
                       engineVars, ext_held, passes, ever_freed>>

NextPool == memory_pool_alloc \/ memory_pool_free \/ BlockWrite

SpecPool == Init /\ [][NextPool]_vars

\* ----------------------------------------------------------- chain calls

\* effect_chain_add: -1 when the chain is full, else the effect is copied
\* to effects[count], count is incremented and the sorted flag cleared.
ChainAddKeepsSorted(es, srt, e) ==
    IF Len(es) >= MAX_EFFECTS_CHAIN
    THEN [index |-> -1, effects |-> es, sorted |-> srt]
    ELSE [index |-> Len(es), effects |-> Append(es, e), sorted |-> srt]
ChainAddNoCapacityCheck(es, srt, e) ==
    [index |-> Len(es), effects |-> Append(es, e), sorted |-> FALSE]
ChainAdd(es, srt, e) ==
    IF Len(es) >= MAX_EFFECTS_CHAIN
    THEN [index |-> -1, effects |-> es, sorted |-> srt]
    ELSE [index |-> Len(es), effects |-> Append(es, e), sorted |-> FALSE]

AddEffect(choices) ==
    \E e \in choices :
        LET r == ChainAdd(effects, sorted, e) IN
        /\ Running
        /\ ~chain_freed
        /\ effects' = r.effects
        /\ sorted' = r.sorted
        /\ call' = [Call("add", r.index, FALSE, FALSE, NullFrame, 0,
                         r.index # -1, NullFrame, <<>>)
                        EXCEPT !.added = <<e>>]
        /\ UNCHANGED <<job, transVars, poolVars, temp_frames_allocated, temp_frame_1,
                       temp_frame_2, chain_freed, engineVars, ext_held, passes, ever_freed>>

\* effect_chain_add on the short chains the processing calls are followed
\* with.
effect_chain_add ==
    /\ Len(effects) < MaxChain
    /\ AddEffect(EffectChoices)

\* effect_chain_add on longer chains, up to and at the capacity: any effect
\* while the chain is shorter than MaxSortLen, then transitions only.
effect_chain_add_long ==
    /\ Len(effects) >= MaxChain
    /\ AddEffect(IF Len(effects) < MaxSortLen
                 THEN EffectChoices ELSE {TransitionEffect})

\* effect_chain_remove: false when index < 0 or index >= count; otherwise
\* the later entries move down by one and count is decremented.  The sorted
\* flag is not touched.
\* A removal that shifts nothing down: the last entry is dropped instead.
ChainRemoveDropsLast(es, index) ==
    IF index < 0 \/ index >= Len(es)
    THEN [ok |-> FALSE, effects |-> es]
    ELSE [ok |-> TRUE, effects |-> SubSeq(es, 1, Len(es) - 1)]

ChainRemove(es, index) ==
    IF index < 0 \/ index >= Len(es)
    THEN [ok |-> FALSE, effects |-> es]
    ELSE [ok |-> TRUE,
          effects |-> [i \in 1 .. (Len(es) - 1) |->
                          IF i <= index THEN es[i] ELSE es[i + 1]]]

\* The indexes effect_chain_remove is called with on a chain of n entries:
\* below the range, the first two, the last two, past the end.
RemoveIndexes(n) == {-1, 0, 1, n - 2, n - 1, n} \cap (-1 .. n)

effect_chain_remove ==
    \E index \in RemoveIndexes(Len(effects)) :
        LET r == ChainRemove(effects, index) IN
        /\ Running
        /\ ~chain_freed
        /\ effects' = r.effects
        /\ call' = Call("remove", index, FALSE, FALSE, NullFrame, 0, r.ok,
                        NullFrame, <<>>)
        /\ UNCHANGED <<job, transVars, poolVars, sorted, temp_frames_allocated, temp_frame_1,
                       temp_frame_2, chain_freed, engineVars, ext_held, passes, ever_freed>>

\* effect_chain_clear: count = 0, sorted = true.  effects_engine_cleanup
\* (engine) makes this call on the engine's chain and nothing else.
effect_chain_clear ==
    /\ Running
    /\ ~chain_freed
    /\ effects' = <<>>
    /\ sorted' = TRUE
    /\ call' = Call("clear", NULL, FALSE, FALSE, NullFrame, 0, TRUE,
                    NullFrame, <<>>)
    /\ UNCHANGED <<job, transVars, poolVars, temp_frames_allocated, temp_frame_1,
                   temp_frame_2, chain_freed, engineVars, ext_held, passes, ever_freed>>

\* effect_chain_destroy(chain) on the engine's chain: when
\* temp_frames_allocated is set, memory_pool_free returns the data block of
\* each scratch frame that has one and the two structures are freed; then
\* the chain itself is freed.  Scratch frames of a failed acquisition
\* (temp_frames_allocated still false) are not returned.  After free(chain)
\* the structure holds nothing the program may read: the chain is empty
\* and has no scratch frames, and calls that would read or write it (a use
\* after free) are not followed.
effect_chain_destroy ==
    LET f1 == IF temp_frames_allocated /\ temp_frame_1.data # NULL
              THEN PoolFree(ThePool, temp_frame_1.data)
              ELSE [pool |-> ThePool, overrun |-> 0]
        f2 == IF temp_frames_allocated /\ temp_frame_2.data # NULL
              THEN PoolFree(f1.pool, temp_frame_2.data)
              ELSE f1
    IN  /\ Running
        /\ ~chain_freed
        /\ SetPool(f2.pool)
        /\ used_blocks' = f2.pool.used
        /\ ever_freed' =
              [b \in Blocks |-> ever_freed[b]
                                \/ (used_blocks[b] /\ ~f2.pool.used[b])]
        /\ effects' = <<>>
        /\ sorted' = FALSE
        /\ temp_frames_allocated' = FALSE
        /\ temp_frame_1' = NullTemp
        /\ temp_frame_2' = NullTemp
        /\ chain_freed' = TRUE
        /\ call' = Call("destroy", NULL, FALSE, FALSE, NullFrame, 0, TRUE,
                        NullFrame, <<>>)
        /\ UNCHANGED <<job, transVars, engineVars, ext_held, passes>>

\* A direct call of effect_chain_sort.
effect_chain_sort ==
    \E so \in ChainSortOutcomes(effects, sorted) :
        /\ Running
        /\ ~chain_freed
        /\ effects' = so.effects
        /\ sorted' = so.sorted
        /\ call' = [Call("sort", NULL, FALSE, FALSE, NullFrame, 0, TRUE,
                         NullFrame, <<>>)
                        EXCEPT !.before = effects]
        /\ UNCHANGED <<job, transVars, poolVars, temp_frames_allocated, temp_frame_1,
                       temp_frame_2, chain_freed, engineVars, ext_held, passes, ever_freed>>

\* The chain calls alone, on chains of every length up to the capacity.
NextChain ==
    \/ effect_chain_add
    \/ effect_chain_add_long
    \/ effect_chain_remove
    \/ effect_chain_clear
    \/ effect_chain_sort

SpecChain == Init /\ [][NextChain]_vars

\* ------------------------------------------------------- processing calls

\* A direct call of effects_process_frame_chain(chain, frame, timestamp),
\* with a null or the engine's chain and a null or a real frame.
\* The arguments of the processing calls: the engine's chain with every
\* frame (or none) at every timestamp, and no chain at all.
ProcessArgs ==
    {[chain_null |-> FALSE, F |-> F, t |-> t] :
        F \in FrameInputs \cup {NullFrame}, t \in Timestamps}
    \cup {[chain_null |-> TRUE, F |-> F, t |-> 0] : F \in FrameInputs}

effects_process_frame_chain ==
    /\ Running
    /\ passes < MaxPasses
    /\ \E a \in ProcessArgs, so \in ChainSortOutcomes(effects, sorted) :
            \E order \in PassCopyOrders(a.F) :
            \E r \in {ChainPass(a.chain_null, a.F, a.t, so, order)} :
            \E o \in HeapOverflow(r.pool.used, r.overrun, BOOLEAN) :
            /\ chain_freed => a.chain_null \/ a.F.null
            /\ passes' = passes + 1
            /\ SetAfterPass(r, o)
            /\ call' = [Call("process_chain", NULL, FALSE, a.chain_null, a.F,
                             a.t, r.result, [a.F EXCEPT !.data = r.fdata],
                             r.log)
                            EXCEPT !.trap = o.trap]
            /\ UNCHANGED <<job, transVars, engineVars, ext_held, ever_freed>>

\* What clock() may measure around a pass, in ms: nothing (the pass took
\* less than a tick) or some time.
ClockDeltas == {0, 1}

\* Metrics that are updated only when the pass succeeded.
EngineAfterPassOnSuccess(result, processed, last_ms, dt) ==
    IF result
    THEN [frames_processed |-> processed + 1, last_process_time_ms |-> dt]
    ELSE [frames_processed |-> processed, last_process_time_ms |-> last_ms]

\* The performance metrics after the pass of effects_process_frame: the
\* clock delta is stored and the frame counter incremented, whatever the
\* pass returned.
EngineAfterPass(result, processed, last_ms, dt) ==
    [frames_processed |-> processed + 1, last_process_time_ms |-> dt]

\* effects_process_frame(engine, frame, timestamp) on the created engine:
\* frame->timestamp is stored first, then the chain pass runs, then the two
\* counters are updated whatever the pass returned.
effects_process_frame ==
    /\ Running
    /\ passes < MaxPasses
    /\ frames_processed < MaxFrames
    /\ \E F \in FrameInputs, t \in Timestamps, dt \in ClockDeltas :
        \E so \in ChainSortOutcomes(effects, sorted) :
            \E F1 \in {[F EXCEPT !.timestamp = t]} :
            \E order \in PassCopyOrders(F1) :
            \E r \in {ChainPass(FALSE, F1, t, so, order)} :
            \E o \in HeapOverflow(r.pool.used, r.overrun, BOOLEAN) :
            /\ ~chain_freed
            /\ passes' = passes + 1
            /\ SetAfterPass(r, o)
            /\ \E m \in {IF o.trap
                          THEN [frames_processed |-> frames_processed,
                                last_process_time_ms |-> last_process_time_ms]
                          ELSE EngineAfterPass(r.result, frames_processed,
                                               last_process_time_ms, dt)} :
                  /\ frames_processed' = m.frames_processed
                  /\ last_process_time_ms' = m.last_process_time_ms
            /\ call' = [Call("process", NULL, FALSE, FALSE, F, t, r.result,
                             [F1 EXCEPT !.data = r.fdata], r.log)
                            EXCEPT !.trap = o.trap]
            /\ UNCHANGED <<job, transVars, ext_held, ever_freed>>

\* effects_process_frame with a null frame: "frame->timestamp = timestamp"
\* stores through the null pointer before anything is checked.  The store
\* traps, or it lands in low memory and the call goes on: the chain pass
\* returns true for the null frame and the counters are updated.
effects_process_frame_null ==
    \E t \in Timestamps, trap \in BOOLEAN, dt \in ClockDeltas :
        /\ Running
        /\ passes < MaxPasses
        /\ frames_processed < MaxFrames
        /\ passes' = passes + 1
        /\ \E m \in {IF trap
                      THEN [frames_processed |-> frames_processed,
                            last_process_time_ms |-> last_process_time_ms]
                      ELSE EngineAfterPass(TRUE, frames_processed,
                                           last_process_time_ms, dt)} :
              /\ frames_processed' = m.frames_processed
              /\ last_process_time_ms' = m.last_process_time_ms
        /\ call' = [Call("process", NULL, FALSE, FALSE, NullFrame, t,
                         ~trap, NullFrame, <<>>) EXCEPT !.trap = trap]
        /\ UNCHANGED <<job, transVars, poolVars, chainVars, ext_held, ever_freed>>

\* effects_engine_init(engine) on the created engine, at any time: the two
\* counters are reset.  (export_mode, reset as well, is read by no call.)
effects_engine_init ==
    /\ Running
    /\ frames_processed' = 0
    /\ last_process_time_ms' = 0
    /\ call' = Call("engine_init", EnginePtr, FALSE, FALSE, NullFrame, 0, TRUE,
                    NullFrame, <<>>)
    /\ UNCHANGED <<job, transVars, poolVars, chainVars, ext_held, passes,
                   ever_freed>>

Next ==
    \/ effect_chain_add
    \/ effect_chain_remove
    \/ effect_chain_clear
    \/ effect_chain_sort
    \/ effect_chain_destroy
    \/ effects_process_frame_chain
    \/ effects_process_frame
    \/ effects_process_frame_null
    \/ effects_engine_init
    \/ memory_pool_alloc

Spec == Init /\ [][Next]_vars

\* ------------------------------------------------------- export job calls

\* export_job_configure(job, output_width, output_height, output_fps,
\* output_path): false for a null path; otherwise the output settings are
\* stored, the encoder the job had is destroyed and a new one is created
\* from the output settings alone.  False when no encoder could be created.
ExportJobConfigure(j, width, height, fps, path) ==
    IF path = NoPath THEN [ok |-> FALSE, job |-> j]
    ELSE LET enc == video_encoder_create(width, height, fps) IN
         [ok |-> ~enc.null,
          job |-> [j EXCEPT !.output_width = width, !.output_height = height,
                            !.output_fps = fps, !.output_path = path,
                            !.encoder = enc]]

\* export_job_set_effects_engine(job, effects_engine): stored in the job
\* and, when the job has an encoder, in that encoder.
ExportJobSetEffectsEngine(j, eng) ==
    [j EXCEPT !.effects_engine = eng,
              !.encoder.effects_engine = IF j.encoder.null THEN @ ELSE eng]

\* video_encoder_init(encoder, output_path) with a path: the counters and
\* the two flags are reset.
VideoEncoderInit(enc) ==
    [enc EXCEPT !.frame_count = 0, !.export_progress = Ratio(0, 1),
                !.frames_exported = 0, !.export_started = FALSE,
                !.is_recording = FALSE]

\* video_encoder_cleanup(encoder)
VideoEncoderCleanup(enc) ==
    [enc EXCEPT !.is_recording = FALSE, !.export_started = FALSE,
                !.frame_count = 0, !.export_progress = Ratio(0, 1),
                !.frames_exported = 0]

\* video_encoder_cancel_export(encoder): the flags are cleared and the
\* progress reset; the frame counters stay.
VideoEncoderCancelExport(enc) ==
    [enc EXCEPT !.is_recording = FALSE, !.export_started = FALSE,
                !.export_progress = Ratio(0, 1)]

\* video_encoder_start_export(encoder, path) with a path:
\* video_encoder_init resets the counters, then the encoder records.
VideoEncoderStartExport(enc) ==
    [VideoEncoderInit(enc) EXCEPT !.export_started = TRUE,
                                  !.is_recording = TRUE]

\* video_encoder_finish_export(encoder): false unless an export was
\* started; else the encoder stops recording and the progress is 1.
VideoEncoderFinishExport(enc) ==
    IF ~enc.export_started THEN [ok |-> FALSE, enc |-> enc]
    ELSE [ok |-> TRUE,
          enc |-> [enc EXCEPT !.is_recording = FALSE,
                              !.export_progress = Ratio(1, 1)]]

\* export_job_start(job)
ExportJobStart(j) ==
    IF j.encoder.null \/ j.output_path = NoPath
    THEN [ok |-> FALSE, job |-> j]
    ELSE [ok |-> TRUE,
          job |-> [j EXCEPT !.encoder = VideoEncoderStartExport(@),
                            !.is_running = TRUE, !.processed_frames = 0,
                            !.current_time = j.start_time]]

\* video_encoder_add_frame(encoder, frame_data, timestamp): false unless the
\* encoder records; else frame_buffer_size bytes are copied from frame_data
\* (what lies behind the caller's buffer where that is shorter) and the
\* frame is counted.
VideoEncoderAddFrame(enc, data) ==
    IF ~enc.is_recording THEN [ok |-> FALSE, enc |-> enc]
    ELSE [ok |-> TRUE,
          enc |-> [enc EXCEPT
                     !.frame_buffer =
                        [k \in DOMAIN enc.frame_buffer |->
                            IF k <= Len(data) THEN data[k] ELSE Uninit],
                     !.frames_exported = @ + 1,
                     !.frame_count = @ + 1]]

\* export_job_process_frame gets as far as
\* video_encoder_process_and_export_frame: the job has an encoder and runs,
\* and the timestamp lies in [start_time, end_time].
ReachesEncoder(j, t) ==
    /\ ~j.encoder.null
    /\ j.is_running
    /\ ~(t < j.start_time \/ t > j.end_time)

\* video_encoder_process_and_export_frame applies the effects: only when
\* the encoder's own effects_engine pointer is set.
AppliesEffects(j, t) ==
    ReachesEncoder(j, t) /\ j.encoder.effects_engine # NULL

\* The frame structure video_encoder_process_and_export_frame(encoder,
\* frame_data, width, height, timestamp) builds around the caller's buffer:
\* the dimensions it was called with, RGBA.
EncoderFrame(enc, width, height, t) ==
    [MakeFrame(width, height, FORMAT_RGBA) EXCEPT
        !.timestamp = t, !.frame_number = enc.frames_exported]

\* export_job_process_frame calls it with the job's source dimensions.
ExportFrame(j, t) ==
    EncoderFrame(j.encoder, j.source_width, j.source_height, t)

\* video_encoder_process_and_export_frame after the pass, if any, returned
\* r: false when the pass failed, else video_encoder_add_frame on the
\* caller's buffer as the pass left it.
VideoEncoderProcessAndExportFrame(enc, r) ==
    IF r.result THEN VideoEncoderAddFrame(enc, r.fdata)
    ELSE [ok |-> FALSE, enc |-> enc]

\* No pass was run on the frame F: what ChainPass reports for a frame it
\* passes through.
NoPass(F) ==
    [result |-> TRUE, effects |-> effects, sorted |-> sorted,
     pool |-> ThePool, allocated |-> temp_frames_allocated,
     T1 |-> temp_frame_1, T2 |-> temp_frame_2,
     fdata |-> F.data, overrun |-> 0, log |-> <<>>]

\* The pass export_job_process_frame makes on the frame, if any.
ExportPass(j, F, t, so, order) ==
    IF AppliesEffects(j, t) THEN ChainPass(FALSE, F, t, so, order)
    ELSE NoPass(F)

\* The pass a direct call of video_encoder_process_and_export_frame makes:
\* effects_process_frame when the encoder has an engine.
EncoderPass(enc, F, t, so, order) ==
    IF enc.effects_engine # NULL THEN ChainPass(FALSE, F, t, so, order)
    ELSE NoPass(F)

\* export_job_process_frame(job, frame_data, timestamp), r being the outcome
\* of the pass: false without an encoder or when the job does not run; true
\* and nothing done outside the export range; otherwise the frame goes to
\* the encoder and, on success, is counted and the progress updated, on
\* failure the job's error is set.
ExportJobProcessFrame(j, t, r) ==
    IF j.encoder.null \/ ~j.is_running THEN [ok |-> FALSE, job |-> j]
    ELSE IF t < j.start_time \/ t > j.end_time THEN [ok |-> TRUE, job |-> j]
    ELSE LET a == VideoEncoderProcessAndExportFrame(j.encoder, r)
         IN IF a.ok
            THEN [ok |-> TRUE,
                  job |-> [j EXCEPT
                      !.encoder = [a.enc EXCEPT !.export_progress =
                                      Ratio(t - j.start_time,
                                            j.end_time - j.start_time)],
                      !.processed_frames = @ + 1,
                      !.current_time = t]]
            ELSE [ok |-> FALSE,
                  job |-> [j EXCEPT !.error_message = "Failed to process frame",
                                    !.has_error = TRUE]]

\* export_job_finish(job): video_encoder_finish_export, then the job is
\* complete whatever that returned.
ExportJobFinish(j) ==
    IF j.encoder.null THEN [ok |-> FALSE, job |-> j]
    ELSE LET f == VideoEncoderFinishExport(j.encoder)
             ok == f.ok
         IN
         [ok |-> ok,
          job |-> [j EXCEPT
                     !.encoder = f.enc,
                     !.is_running = FALSE, !.is_complete = TRUE,
                     !.error_message = IF ok THEN @
                                       ELSE "Failed to finish export",
                     !.has_error = IF ok THEN @ ELSE TRUE]]

JobCall(op, ptr, t, result) ==
    Call(op, ptr, FALSE, FALSE, NullFrame, t, result, NullFrame, <<>>)

\* The output widths a caller configures: none, and every width up to the
\* source's.
OutputWidths == 0 .. MaxWidth

export_job_configure ==
    \E width \in OutputWidths, path \in {NoPath, OutputPath} :
        \E c \in {ExportJobConfigure(job, width, FrameHeight, SourceFps,
                                      path)} :
            /\ Running
            /\ job' = c.job
            /\ call' = JobCall("configure", width, 0, c.ok)
            /\ UNCHANGED <<transVars, poolVars, chainVars, engineVars, ext_held, passes,
                           ever_freed>>

export_job_set_effects_engine ==
    \E eng \in {NULL, EnginePtr} :
        /\ Running
        /\ job' = ExportJobSetEffectsEngine(job, eng)
        /\ call' = JobCall("set_effects_engine", eng, 0, TRUE)
        /\ UNCHANGED <<transVars, poolVars, chainVars, engineVars, ext_held, passes,
                       ever_freed>>

export_job_start ==
    \E c \in {ExportJobStart(job)} :
        /\ Running
        /\ job' = c.job
        /\ call' = JobCall("start", NULL, 0, c.ok)
        /\ UNCHANGED <<transVars, poolVars, chainVars, engineVars, ext_held, passes,
                       ever_freed>>

export_job_finish ==
    \E c \in {ExportJobFinish(job)} :
        /\ Running
        /\ job' = c.job
        /\ call' = JobCall("finish", NULL, 0, c.ok)
        /\ UNCHANGED <<transVars, poolVars, chainVars, engineVars, ext_held, passes,
                       ever_freed>>

\* The encoder calls a holder of job->encoder makes directly.  On a null
\* encoder (and video_encoder_init on a null path) they change nothing.
video_encoder_init ==
    \E path \in {NoPath, OutputPath} :
        /\ Running
        /\ ~job.encoder.null
        /\ job' = IF path = NoPath THEN job
                  ELSE [job EXCEPT !.encoder = VideoEncoderInit(@)]
        /\ call' = JobCall("encoder_init", NULL, 0, path # NoPath)
        /\ UNCHANGED <<transVars, poolVars, chainVars, engineVars, ext_held, passes,
                       ever_freed>>

video_encoder_cleanup ==
    /\ Running
    /\ ~job.encoder.null
    /\ job' = [job EXCEPT !.encoder = VideoEncoderCleanup(@)]
    /\ call' = JobCall("encoder_cleanup", NULL, 0, TRUE)
    /\ UNCHANGED <<transVars, poolVars, chainVars, engineVars, ext_held, passes,
                   ever_freed>>

video_encoder_cancel_export ==
    /\ Running
    /\ ~job.encoder.null
    /\ job' = [job EXCEPT !.encoder = VideoEncoderCancelExport(@)]
    /\ call' = JobCall("encoder_cancel_export", NULL, 0, TRUE)
    /\ UNCHANGED <<transVars, poolVars, chainVars, engineVars, ext_held, passes,
                   ever_freed>>

\* js_video_encoder_set_effects_engine(encoder_ptr, effects_engine_ptr) on
\* job->encoder: the engine is stored in the encoder alone; the job's own
\* pointer is not touched.
video_encoder_set_effects_engine ==
    \E eng \in {NULL, EnginePtr} :
        /\ Running
        /\ ~job.encoder.null
        /\ job' = [job EXCEPT !.encoder.effects_engine = eng]
        /\ call' = JobCall("encoder_set_effects_engine", eng, 0, TRUE)
        /\ UNCHANGED <<transVars, poolVars, chainVars, engineVars, ext_held, passes,
                       ever_freed>>

\* video_encoder_start_export(job->encoder, path): false and nothing done
\* for a null path.
video_encoder_start_export ==
    \E path \in {NoPath, OutputPath} :
        /\ Running
        /\ ~job.encoder.null
        /\ job' = IF path = NoPath THEN job
                  ELSE [job EXCEPT !.encoder = VideoEncoderStartExport(@)]
        /\ call' = JobCall("encoder_start_export", NULL, 0, path # NoPath)
        /\ UNCHANGED <<transVars, poolVars, chainVars, engineVars, ext_held, passes,
                       ever_freed>>

\* video_encoder_finish_export(job->encoder)
video_encoder_finish_export ==
    \E f \in {VideoEncoderFinishExport(job.encoder)} :
        /\ Running
        /\ ~job.encoder.null
        /\ job' = [job EXCEPT !.encoder = f.enc]
        /\ call' = JobCall("encoder_finish_export", NULL, 0, f.ok)
        /\ UNCHANGED <<transVars, poolVars, chainVars, engineVars, ext_held, passes,
                       ever_freed>>

\* video_encoder_add_frame(job->encoder, frame_data, timestamp) with a
\* buffer of the source's size.
video_encoder_add_frame ==
    /\ Running
    /\ passes < MaxPasses
    /\ ~job.encoder.null
    /\ \E F \in {EncoderFrame(job.encoder, job.source_width,
                               job.source_height, 0)} :
        \E a \in {VideoEncoderAddFrame(job.encoder, F.data)} :
            /\ passes' = passes + 1
            /\ job' = [job EXCEPT !.encoder = a.enc]
            /\ call' = Call("encoder_add_frame", NULL, FALSE, FALSE, F, 0, a.ok,
                            F, <<>>)
            /\ UNCHANGED <<transVars, poolVars, chainVars, engineVars, ext_held,
                           ever_freed>>

\* The timestamps frames are exported with: before the range, in it, at
\* its end, behind it.
ExportTimestamps == {-1, 0, ExportDuration, ExportDuration + 1}

\* export_job_process_frame with a frame buffer of the source's size.  The
\* engine's counters move when effects_process_frame was called.
export_job_process_frame ==
    /\ Running
    /\ passes < MaxPasses
    /\ \E t \in ExportTimestamps, dt \in ClockDeltas :
        \E F \in {ExportFrame(job, t)} :
        \E so \in ChainSortOutcomes(effects, sorted) :
            \E order \in PassCopyOrders(F) :
            \E r \in {ExportPass(job, F, t, so, order)} :
            \E o \in HeapOverflow(r.pool.used, r.overrun, BOOLEAN) :
            \E c \in {ExportJobProcessFrame(job, t, r)} :
            \E m \in {IF AppliesEffects(job, t) /\ ~o.trap
                       THEN EngineAfterPass(r.result, frames_processed,
                                            last_process_time_ms, dt)
                       ELSE [frames_processed |-> frames_processed,
                             last_process_time_ms |-> last_process_time_ms]} :
            /\ chain_freed => ~AppliesEffects(job, t)
            /\ passes' = passes + 1
            /\ SetAfterPass(r, o)
            /\ frames_processed' = m.frames_processed
            /\ last_process_time_ms' = m.last_process_time_ms
            /\ job' = IF o.trap THEN job ELSE c.job
            /\ call' = [Call("export_frame", NULL, FALSE, FALSE, F, t, c.ok,
                             [F EXCEPT !.data = r.fdata], r.log)
                            EXCEPT !.trap = o.trap]
            /\ UNCHANGED <<transVars, ext_held, ever_freed>>

\* The timestamps of the direct calls: before the effects' window and in it.
EncoderTimestamps == {-1, 0}

\* video_encoder_process_and_export_frame(job->encoder, frame_data, width,
\* height, timestamp) with a frame of the source's size: the effects are
\* applied when the encoder has an engine, whatever the job's state and
\* range, then the frame goes to video_encoder_add_frame.
video_encoder_process_and_export_frame ==
    /\ Running
    /\ passes < MaxPasses
    /\ ~job.encoder.null
    /\ \E t \in EncoderTimestamps, dt \in ClockDeltas :
        \E F \in {EncoderFrame(job.encoder, job.source_width,
                                job.source_height, t)} :
        \E so \in ChainSortOutcomes(effects, sorted) :
            \E order \in PassCopyOrders(F) :
            \E r \in {EncoderPass(job.encoder, F, t, so, order)} :
            \E o \in HeapOverflow(r.pool.used, r.overrun, BOOLEAN) :
            \E a \in {VideoEncoderProcessAndExportFrame(job.encoder, r)} :
            \E m \in {IF job.encoder.effects_engine # NULL /\ ~o.trap
                       THEN EngineAfterPass(r.result, frames_processed,
                                            last_process_time_ms, dt)
                       ELSE [frames_processed |-> frames_processed,
                             last_process_time_ms |-> last_process_time_ms]} :
            /\ chain_freed => job.encoder.effects_engine = NULL
            /\ passes' = passes + 1
            /\ SetAfterPass(r, o)
            /\ frames_processed' = m.frames_processed
            /\ last_process_time_ms' = m.last_process_time_ms
            /\ job' = IF o.trap THEN job ELSE [job EXCEPT !.encoder = a.enc]
            /\ call' = [Call("encoder_export_frame", NULL, FALSE, FALSE, F, t,
                             a.ok, [F EXCEPT !.data = r.fdata], r.log)
                            EXCEPT !.trap = o.trap]
            /\ UNCHANGED <<transVars, ext_held, ever_freed>>

\* The blur effects a caller adds: built by effect_create_blur with a box
\* and a gaussian radius, or by effect_create_filter with FILTER_BLUR.
BlurChoices ==
    {effect_create_blur(1, FALSE), effect_create_blur(2, TRUE),
     effect_create_filter("BLUR", 1)}

effect_chain_add_blur ==
    /\ Len(effects) < MaxChain
    /\ AddEffect(BlurChoices)

\* Chains of blur effects are built and frames processed.
NextBlur ==
    \/ effect_chain_add_blur
    \/ effects_process_frame_chain

SpecBlur == Init /\ [][NextBlur]_vars

\* Chains long enough for a skipped effect followed by three applied ones
\* in one pass; the effects are a color correction, enabled or not, and a
\* transform.
MaxScratchChain == 4
ScratchChoices ==
    {effect_create_color_correction(1),
     Disabled(effect_create_color_correction(1)),
     effect_create_transform(1, 0)}

effect_chain_add_scratch ==
    /\ Len(effects) < MaxScratchChain
    /\ AddEffect(ScratchChoices)

NextScratch ==
    \/ effect_chain_add_scratch
    \/ effects_process_frame_chain

SpecScratch == Init /\ [][NextScratch]_vars

effects_process_frame_chain_oversize ==
    /\ Running
    /\ passes < MaxPasses
    /\ \E F \in OversizeFrames, so \in ChainSortOutcomes(effects, sorted) :
            \E order \in PassCopyOrders(F) :
            \E r \in {ChainPass(FALSE, F, 0, so, order)} :
            \E o \in HeapOverflow(r.pool.used, r.overrun, BOOLEAN) :
            /\ ~chain_freed
            /\ passes' = passes + 1
            /\ SetAfterPass(r, o)
            /\ call' = [Call("process_chain", NULL, FALSE, FALSE, F, 0,
                             r.result, [F EXCEPT !.data = r.fdata], r.log)
                            EXCEPT !.trap = o.trap]
            /\ UNCHANGED <<job, transVars, engineVars, ext_held, ever_freed>>

NextOversize ==
    \/ effect_chain_add_scratch
    \/ effects_process_frame_chain_oversize
    \/ memory_pool_alloc

SpecOversize == Init /\ [][NextOversize]_vars

\* The chains frames are exported through: empty, or one color correction.
MaxExportChain == 1
ExportChoices == {effect_create_color_correction(1)}

effect_chain_add_export ==
    /\ Len(effects) < MaxExportChain
    /\ AddEffect(ExportChoices)

\* An export: the chain is filled, the job configured, given the engine,
\* started, fed frames and finished, the encoder and the engine reset or the
\* export cancelled, and the job's encoder called directly, in any order.
NextExport ==
    \/ effect_chain_add_export
    \/ export_job_configure
    \/ export_job_set_effects_engine
    \/ export_job_start
    \/ export_job_process_frame
    \/ export_job_finish
    \/ video_encoder_init
    \/ video_encoder_cleanup
    \/ video_encoder_cancel_export
    \/ video_encoder_set_effects_engine
    \/ video_encoder_start_export
    \/ video_encoder_finish_export
    \/ video_encoder_add_frame
    \/ video_encoder_process_and_export_frame
    \/ effects_engine_init

SpecExport == Init /\ [][NextExport]_vars

\* ============================================================ transitions

\* transition_type_t
TransitionTypes ==
    {"FADE", "DISSOLVE", "WIPE_LEFT", "WIPE_RIGHT", "WIPE_UP", "WIPE_DOWN"}

\* progress is a multiple of 1 / ProgressSteps, kept as its numerator; the
\* callers pass values below 0 and above 1 as well.  With steps of 1/4 the
\* float products, sums and quotients of the code are exact.
ProgressSteps == 4
ProgressInputs == -1 .. (ProgressSteps + 1)

\* fmaxf(0.0f, fminf(1.0f, progress))
ClampProgress(p) == Max(0, IF p < ProgressSteps THEN p ELSE ProgressSteps)

\* A frame structure whose pixels are the w * h * 4 heap bytes from `addr`.
HeapFrame(addr, w, h) ==
    [null |-> FALSE, data |-> addr, width |-> w, height |-> h,
     stride |-> w * BytesPerPixel, format |-> FORMAT_RGBA, timestamp |-> 0,
     frame_number |-> 0]
NullHeapFrame == [HeapFrame(NULL, 0, 0) EXCEPT !.null = TRUE]

\* What the caller put into byte k of the buffer at addr.
SourceByte(addr, k) == (97 * addr + 7 * k) % 256

\* (uint8_t)(v1 * (1.0f - progress) + v2 * progress)
FadeChannel(v1, v2, p) ==
    (v1 * (ProgressSteps - p) + v2 * p) \div ProgressSteps

\* A boundary that is rounded up.
WipeBoundaryRoundedUp(p, extent) ==
    (p * extent + ProgressSteps - 1) \div ProgressSteps

\* (int)(progress * extent)
WipeBoundary(p, extent) == (p * extent) \div ProgressSteps

\* A dissolve whose threshold is not reduced modulo 100.
TakesFrame2NoWrap(type, x, y, width, height, p) ==
    CASE type = "DISSOLVE" -> p * 100 > (x * 31 + y * 17) * ProgressSteps
      [] type = "WIPE_LEFT" -> x < WipeBoundary(p, width)
      [] type = "WIPE_RIGHT" -> x >= width - WipeBoundary(p, width)
      [] type = "WIPE_UP" -> y >= height - WipeBoundary(p, height)
      [] type = "WIPE_DOWN" -> y < WipeBoundary(p, height)
      [] OTHER -> FALSE

\* The test that sends frame2's pixel to the output at (x, y):
\* dissolve: progress > (float)((x * 31 + y * 17) % 100) / 100.0f;
\* wipes: the pixel lies on the side of the boundary already wiped.
TakesFrame2(type, x, y, width, height, p) ==
    CASE type = "DISSOLVE" ->
            p * 100 > ((x * 31 + y * 17) % 100) * ProgressSteps
      [] type = "WIPE_LEFT" -> x < WipeBoundary(p, width)
      [] type = "WIPE_RIGHT" -> x >= width - WipeBoundary(p, width)
      [] type = "WIPE_UP" -> y >= height - WipeBoundary(p, height)
      [] type = "WIPE_DOWN" -> y < WipeBoundary(p, height)
      [] OTHER -> FALSE

\* The byte the loop body stores in channel ch of the pixel at idx.
OutputChannel(mem, c, idx, ch) ==
    LET v1 == mem[c.frame1.data + idx + ch]
        v2 == mem[c.frame2.data + idx + ch]
        x == c.pos % c.width
        y == c.pos \div c.width
    IN IF c.type = "FADE" THEN FadeChannel(v1, v2, c.progress)
       ELSE IF TakesFrame2(c.type, x, y, c.width, c.height, c.progress)
            THEN v2 ELSE v1

\* A loop body that stores at idx without the output buffer's address.
TransitionPixelNoBase(mem, c) ==
    LET idx == c.pos * BytesPerPixel IN
    [a \in DOMAIN mem |->
        IF a - 1 >= idx /\ a - 1 < idx + BytesPerPixel
        THEN OutputChannel(mem, c, idx, a - 1 - idx)
        ELSE mem[a]]

\* One pass of the loop body of the call c: the four bytes of the pixel at
\* idx = (y * width + x) * 4 of output->data are stored.
TransitionPixel(mem, c) ==
    LET idx == c.pos * BytesPerPixel
        at == c.output.data + idx
    IN [a \in DOMAIN mem |->
           IF a >= at /\ a < at + BytesPerPixel
           THEN OutputChannel(mem, c, idx, a - at)
           ELSE mem[a]]

\* (overlapped is history: the loop body of another call ran while this
\* call was between two of its pixels.)
\* The call returned: a null argument, or the loops ran through.
Finished(c) == c.null_arg \/ c.pos >= c.width * c.height

\* The call c run from where it stands to its return.
RECURSIVE RunTransition(_, _)
RunTransition(mem, c) ==
    IF Finished(c) THEN mem
    ELSE RunTransition(TransitionPixel(mem, c), [c EXCEPT !.pos = @ + 1])

\* A fade whose weights are exchanged.
TransitionEntryFadeSwapped(type, progress, f1, f2, out) ==
    [type |-> type, raw_progress |-> progress,
     progress |-> IF type = "FADE"
                  THEN ProgressSteps - ClampProgress(progress)
                  ELSE ClampProgress(progress),
     frame1 |-> f1, frame2 |-> f2, output |-> out,
     null_arg |-> f1.null \/ f2.null \/ out.null,
     width |-> out.width, height |-> out.height, pos |-> 0,
     overlapped |-> FALSE]

\* A transition function up to its loops: the null checks, width and height
\* read from the output frame, progress clamped.
TransitionEntry(type, progress, f1, f2, out) ==
    [type |-> type, raw_progress |-> progress,
     progress |-> ClampProgress(progress),
     frame1 |-> f1, frame2 |-> f2, output |-> out,
     null_arg |-> f1.null \/ f2.null \/ out.null,
     width |-> out.width, height |-> out.height, pos |-> 0,
     overlapped |-> FALSE]

\* The caller's three frames of w x h pixels behind the n bytes in use:
\* two filled source frames and an output frame as malloc left it.
NewBuffers(n, w, h) ==
    LET size == w * h * BytesPerPixel IN
    [k \in 1 .. (3 * size) |->
        IF k <= 2 * size THEN SourceByte(n + 1 + ((k - 1) \div size) * size,
                                         ((k - 1) % size) + 1)
        ELSE Uninit]

\* Which argument a caller passes as a null pointer: none, frame1, frame2,
\* output.
NullArgs == 0 .. 3

\* A caller sets up three equally sized frames and calls a transition.
BeginTransition(sizes, nulls, progresses) ==
    /\ Running
    /\ \E type \in TransitionTypes, p \in progresses, wh \in sizes,
          na \in nulls :
        LET n == Len(heap)
            size == wh[1] * wh[2] * BytesPerPixel
            f1 == IF na = 1 THEN NullHeapFrame
                  ELSE HeapFrame(n + 1, wh[1], wh[2])
            f2 == IF na = 2 THEN NullHeapFrame
                  ELSE HeapFrame(n + 1 + size, wh[1], wh[2])
            out == IF na = 3 THEN NullHeapFrame
                   ELSE HeapFrame(n + 1 + 2 * size, wh[1], wh[2])
        IN /\ heap' = heap \o NewBuffers(n, wh[1], wh[2])
           /\ tstart' = tstart \o NewBuffers(n, wh[1], wh[2])
           /\ tcalls' = Append(tcalls, TransitionEntry(type, p, f1, f2, out))
    /\ UNCHANGED <<poolVars, chainVars, engineVars, job, ext_held, passes,
                   ever_freed, call>>

\* The frame sizes of a single call, and the largest number of calls.
MaxTransitionWidth == 4
MaxTransitionHeight == 2
TransitionSizes ==
    {<<w, h>> : w \in (MaxTransitionWidth - 1) .. MaxTransitionWidth,
                h \in 1 .. MaxTransitionHeight}
transition_call ==
    /\ Len(tcalls) = 0
    /\ BeginTransition(TransitionSizes, NullArgs, ProgressInputs)

\* Two calls in flight at once, on frames of two pixels.
MaxConcurrent == 2
SmallSizes == {<<2, 1>>, <<1, 2>>}
transition_call_concurrent ==
    /\ Len(tcalls) < MaxConcurrent
    /\ BeginTransition(SmallSizes, {0}, ProgressInputs)

\* The loop body of one of the calls in flight runs once.
transition_pixel ==
    \E i \in DOMAIN tcalls :
        /\ Running
        /\ ~Finished(tcalls[i])
        /\ heap' = TransitionPixel(heap, tcalls[i])
        /\ tcalls' = [j \in DOMAIN tcalls |->
                         IF j = i THEN [tcalls[j] EXCEPT !.pos = @ + 1]
                         ELSE IF tcalls[j].pos > 0 /\ ~Finished(tcalls[j])
                              THEN [tcalls[j] EXCEPT !.overlapped = TRUE]
                              ELSE tcalls[j]]
        /\ UNCHANGED <<tstart, poolVars, chainVars, engineVars, job, ext_held,
                       passes, ever_freed, call>>

NextTransition == transition_call \/ transition_pixel
SpecTransition == Init /\ [][NextTransition]_vars

NextConcurrent == transition_call_concurrent \/ transition_pixel
SpecConcurrent == Init /\ [][NextConcurrent]_vars

\* ======================================================== pipeline claims

\* The last step was a processing call that was handed a chain and a frame.
IsPass(c) == c.op \in {"process_chain", "process"} /\ ~c.trap
OnChainAndFrame(c) == IsPass(c) /\ ~c.chain_null /\ ~c.frame_in.null

\* Effect i (C index) was dispatched during the call.
Dispatched(c, i) == \E k \in DOMAIN c.log : c.log[k].index = i

\* The reference of the specification: the effects of es that are enabled
\* and pass the activation test at t, applied one after another, in the
\* order of es, in place on the one buffer `bytes` of frame F.
RECURSIVE InPlace(_, _, _, _, _)
InPlace(es, F, t, bytes, i) ==
    IF i > Len(es) THEN bytes
    ELSE InPlace(es, F, t,
                 IF IsApplied(es[i], t)
                 THEN ApplyEffect(es[i], bytes, F.width, F.height, F.format)
                 ELSE bytes,
                 i + 1)

\* C1: when effects_process_frame_chain returns success for a non-empty
\* chain, the caller's buffer holds the bytes that applying the enabled and
\* active effects, in sorted order, in place on the original pixels gives.
C1_PassEqualsInPlace ==
    [][(/\ call'.op = "process_chain"
        /\ OnChainAndFrame(call')
        /\ Len(effects) > 0
        /\ call'.result)
        => call'.frame.data =
              InPlace(effects', call'.frame_in, call'.t,
                      call'.frame_in.data, 1)]_vars

\* The scratch buffers cannot be acquired: the chain has none yet and the
\* pool cannot provide two blocks.
AcquireFails ==
    ~allocate_temp_frames(ThePool, temp_frames_allocated, temp_frame_1,
                          temp_frame_2, 1, 1).ok

\* C2: a processing call reports failure when the frame is null, when the
\* chain is null or when the scratch buffers cannot be acquired, and then
\* leaves the caller's frame (pixels and metadata) as it was.
C2_FailureLeavesFrame ==
    [][(/\ call'.op \in {"process_chain", "process"}
        /\ \/ call'.chain_null
           \/ call'.frame_in.null
           \/ Len(effects) > 0 /\ AcquireFails)
        => (~call'.result /\ call'.frame = call'.frame_in)]_vars

\* C3: in a pass at timestamp t an enabled effect is applied if and only
\* if start_time <= t < end_time.
C3_HalfOpenWindow ==
    [][(OnChainAndFrame(call') /\ Len(effects) > 0 /\ call'.result)
        => \A i \in 1 .. Len(effects') :
              effects'[i].enabled =>
                 (Dispatched(call', i - 1)
                    <=> (/\ effects'[i].start_time <= call'.t
                         /\ call'.t < effects'[i].end_time))]_vars

\* The pixels the same call leaves when entry i (from 1) of the sorted
\* chain es is not in the chain, from the same state of the pool and of the
\* scratch buffers.
PixelsWithout(es, i, F, t) ==
    LET rest == ChainRemove(es, i - 1).effects IN
    IF Len(rest) = 0 THEN {F.data}
    ELSE {PassAfterAcquire(F, t, [effects |-> rest, sorted |-> TRUE],
                           allocate_temp_frames(ThePool, temp_frames_allocated,
                                                temp_frame_1, temp_frame_2,
                                                F.width, F.height),
                           order).fdata : order \in PassCopyOrders(F)}

\* C4: for every chain, frame of any pixel format and timestamp, a pass
\* with a disabled effect in the chain leaves the same pixels as the pass
\* with the chain without that effect.
C4_DisabledIsAbsent ==
    [][(OnChainAndFrame(call') /\ Len(effects) > 0)
        => \A i \in 1 .. Len(effects') :
              ~effects'[i].enabled =>
                 call'.frame.data \in
                    PixelsWithout(effects', i, call'.frame_in, call'.t)]_vars

\* C5: a pass over a chain with no effects returns success, leaves the
\* frame byte-identical, acquires no scratch buffer and leaves the pool
\* unchanged.
C5_EmptyChainPassThrough ==
    [][(OnChainAndFrame(call') /\ Len(effects) = 0)
        => /\ call'.result
           /\ call'.frame.data = call'.frame_in.data
           /\ call'.op = "process_chain" => call'.frame = call'.frame_in
           /\ call'.log = <<>>
           /\ UNCHANGED poolVars
           /\ UNCHANGED chainVars]_vars

C5_Witness ==
    /\ call.op = "process_chain"
    /\ OnChainAndFrame(call)
    /\ Len(effects) = 0
    /\ call.result
    /\ call.frame = call.frame_in
    /\ temp_frames_allocated
    /\ used_count = 2

\* ============================================================ pool claims

CallBlock == FreeBlockIndex(call.ptr)
BlockBytes(mem, b) == [k \in 1 .. BlockSize |-> mem[b * BlockSize + k - 1]]
IsBlockStart(ptr) ==
    /\ FreeInRange(ptr, TotalBlocks)
    /\ PtrOffset(ptr) % BlockSize = 0

\* C6: after any sequence of memory_pool_alloc and memory_pool_free calls
\* (with valid, repeated, null, out-of-range or mid-block pointers),
\* used_count equals the number of set occupancy flags and lies in
\* 0 .. total_blocks.
C6_CountIsPopCount ==
    /\ used_count = PopCount(used_blocks)
    /\ 0 <= used_count
    /\ used_count <= total_blocks

\* C7: memory_pool_free changes no flag, not the count and no byte when the
\* pointer lies outside the arena or is not the start address of a block.
C7_FreeRejectsBadPointers ==
    [][(call'.op = "free" /\ ~IsBlockStart(call'.ptr))
        => UNCHANGED poolVars]_vars

\* C8: when every block is in use memory_pool_alloc returns no block and
\* leaves the pool as it was; the number of blocks never changes.
C8_ExhaustionNoGrowth ==
    [][/\ total_blocks' = total_blocks
       /\ DOMAIN used_blocks' = DOMAIN used_blocks
       /\ DOMAIN pool_mem' = DOMAIN pool_mem
       /\ (call'.op = "alloc" /\ \A b \in Blocks : used_blocks[b])
            => (call'.ptr = NULL /\ UNCHANGED poolVars)]_vars

C8_Witness ==
    /\ call.op = "alloc"
    /\ call.ptr = NULL
    /\ \A b \in Blocks : used_blocks[b]
    /\ used_count = TotalBlocks

\* C9: a block that memory_pool_alloc returns after it has been freed is
\* all zero at the moment it is returned (freeing zeroes all block_size
\* bytes of the block).
C9_ReallocatedBlockIsZero ==
    (call.op = "alloc" /\ call.ptr # NULL /\ ever_freed[CallBlock])
        => BlockBytes(pool_mem, CallBlock) = Zeros(BlockSize)

\* C10: memory_pool_free on a block that is already free changes neither
\* the occupancy flags, nor used_count, nor any byte of the arena.
C10_DoubleFreeIdempotent ==
    [][(/\ call'.op = "free"
        /\ FreeInRange(call'.ptr, total_blocks)
        /\ ~used_blocks[FreeBlockIndex(call'.ptr)])
        => UNCHANGED poolVars]_vars

C10_Witness ==
    /\ call.op = "free"
    /\ FreeInRange(call.ptr, total_blocks)
    /\ ~call.pre_used
    /\ ever_freed[CallBlock]
    /\ \E b \in Blocks : used_blocks[b]

\* The lowest-indexed block whose occupancy flag is clear.
LowestFree(flags) ==
    CHOOSE b \in DOMAIN flags :
        ~flags[b] /\ \A c \in DOMAIN flags : ~flags[c] => b <= c

\* C11: memory_pool_alloc on a pool with a free block returns the start of
\* the lowest-indexed free block and marks exactly that block in use; the
\* block it returns is not one a live allocation still holds.
C11_FirstFitNoOverlap ==
    [][(call'.op = "alloc" /\ \E b \in Blocks : ~used_blocks[b])
        => /\ call'.ptr = BlockStart(LowestFree(used_blocks))
           /\ used_blocks' =
                 [used_blocks EXCEPT ![LowestFree(used_blocks)] = TRUE]
           /\ call'.ptr \notin ext_held]_vars

\* =========================================================== chain claims

\* C12: effect_chain_add on a chain of fewer than 32 effects appends the
\* effect at index count and returns that index; on a chain of 32 effects
\* it returns -1 and leaves the chain unchanged; count stays in 0 .. 32.
C12_AddWithinCapacity ==
    [][/\ 0 <= Len(effects') /\ Len(effects') <= MAX_EFFECTS_CHAIN
       /\ call'.op = "add" =>
             IF Len(effects) < MAX_EFFECTS_CHAIN
             THEN /\ effects' = Append(effects, call'.added[1])
                  /\ call'.ptr = Len(effects)
             ELSE /\ call'.ptr = -1
                  /\ UNCHANGED chainVars]_vars

C12_Witness ==
    /\ call.op = "add"
    /\ call.ptr = -1
    /\ Len(effects) = MAX_EFFECTS_CHAIN

\* C13: in every state reached through the chain calls and frame
\* processing, a chain whose sorted flag is set has its entries in
\* non-decreasing priority order.
C13_SortedFlagMeansOrdered == sorted => IsPrioritySorted(effects)

C13_Witness ==
    /\ call.op = "process_chain"
    /\ call.result
    /\ sorted
    /\ Len(effects) = 2
    /\ effects[1].priority < effects[2].priority

\* C14: every successful effect_chain_add and every successful
\* effect_chain_remove leaves the sorted flag false.
C14_EditClearsSorted ==
    [][(call'.op \in {"add", "remove"} /\ call'.result) => ~sorted']_vars

\* C15: effect_chain_sort is stable: the effects of one priority tier stand,
\* after the sort, in the order they stood in before it.
C15_SortIsStable ==
    [][call'.op = "sort" =>
          \A p \in EFFECT_PRIORITY_COLOR_CORRECTION ..
                    EFFECT_PRIORITY_TRANSITION :
              Tier(effects', p) = Tier(effects, p)]_vars

\* How many entries of the chain es equal the effect e.
Occurrences(es, e) == Cardinality({i \in 1 .. Len(es) : es[i] = e})

\* The priority tiers of the chain's entries, in chain order.
Priorities(es) == [i \in 1 .. Len(es) |-> es[i].priority]

\* C16: after effect_chain_sort the chain holds the same entries as before
\* (a permutation, nothing added, lost or altered), arranged in
\* non-decreasing tier order: color correction, filters, transforms,
\* transitions.
C16_SortArrangesByTier ==
    [][call'.op = "sort" =>
          /\ Len(effects') = Len(effects)
          /\ \A i \in 1 .. Len(effects) :
                Occurrences(effects', effects[i]) =
                    Occurrences(effects, effects[i])
          /\ \A i \in 1 .. (Len(effects') - 1) :
                effects'[i].priority <= effects'[i + 1].priority]_vars

\* {Transition, Filter, ColorCorrection, Transform} was sorted into
\* {ColorCorrection, Filter, Transform, Transition}.
C16_Witness ==
    /\ call.op = "sort"
    /\ Priorities(call.before) =
           <<EFFECT_PRIORITY_TRANSITION, EFFECT_PRIORITY_FILTER,
             EFFECT_PRIORITY_COLOR_CORRECTION, EFFECT_PRIORITY_TRANSFORM>>
    /\ Priorities(effects) =
           <<EFFECT_PRIORITY_COLOR_CORRECTION, EFFECT_PRIORITY_FILTER,
             EFFECT_PRIORITY_TRANSFORM, EFFECT_PRIORITY_TRANSITION>>
    /\ [i \in 1 .. 4 |-> effects[i].type] =
           <<"COLOR_CORRECTION", "FILTER", "TRANSFORM", "TRANSITION">>

\* C17: effect_chain_remove(chain, index) with 0 <= index < count deletes
\* exactly the entry at index, moves every later entry down by one, keeps
\* the earlier ones and decrements count; with any other index it reports
\* an error and leaves the chain as it was.
C17_RemoveDeletesOneEntry ==
    [][call'.op = "remove" =>
          IF 0 <= call'.ptr /\ call'.ptr < Len(effects)
          THEN /\ call'.result
               /\ Len(effects') = Len(effects) - 1
               /\ \A i \in 1 .. Len(effects') :
                     effects'[i] = IF i <= call'.ptr THEN effects[i]
                                                    ELSE effects[i + 1]
          ELSE /\ ~call'.result
               /\ UNCHANGED chainVars]_vars

\* An entry in the middle of a chain of three or more distinct-looking
\* entries was removed: the entry behind it moved down.
C17_Witness ==
    /\ call.op = "remove"
    /\ call.result
    /\ call.ptr = 1
    /\ Len(effects) >= 2
    /\ effects[1] # effects[2]

\* ========================================================== engine claims

\* C18: every call of effects_process_frame on the created engine that
\* returns increments frames_processed by exactly one and stores a fresh
\* clock measurement in last_process_time_ms, whether the pass succeeded,
\* passed an empty chain through or failed; of the other calls only
\* effects_engine_init, which resets them, touches the two.
C18_EveryCallIsCounted ==
    [][IF call'.op = "process" /\ ~call'.trap
       THEN /\ frames_processed' = frames_processed + 1
            /\ last_process_time_ms' \in ClockDeltas
       ELSE IF call'.op = "engine_init" /\ call' # call
            THEN frames_processed' = 0 /\ last_process_time_ms' = 0
            ELSE UNCHANGED engineVars]_vars

\* A call whose pass failed on the acquisition of the scratch frames was
\* counted.
C18_Witness ==
    /\ call.op = "process"
    /\ ~call.trap
    /\ ~call.result
    /\ AcquireFails
    /\ frames_processed = 1
    /\ last_process_time_ms \in ClockDeltas

\* C19: a pass over a frame whose format is not RGBA leaves the frame's
\* bytes as they were, whatever effects the chain holds and at whatever
\* position they run, and returns success (unless the scratch buffers
\* cannot be acquired).
C19_NonRgbaFrameUntouched ==
    [][(OnChainAndFrame(call') /\ call'.frame_in.format # FORMAT_RGBA)
        => /\ call'.frame.data = call'.frame_in.data
           /\ ~AcquireFails => call'.result]_vars

\* ========================================================== export claims

\* C20: once an effects engine is attached to the export job, every frame
\* the job exports (export_job_process_frame on a running job with a
\* timestamp in the export range) is run through that engine's pipeline
\* first: the engine counts the frame, whether the job was configured
\* before or after the engine was attached.
C20_ExportedFramesArePiped ==
    [][(/\ call'.op = "export_frame"
        /\ job.effects_engine = EnginePtr
        /\ ReachesEncoder(job, call'.t))
        => frames_processed' = frames_processed + 1]_vars

\* ====================================================== transition claims

\* The address a lies in the pixel bytes of the frame f.
InBuffer(f, a) ==
    ~f.null /\ a >= f.data /\ a < f.data + f.width * f.height * BytesPerPixel

\* The calls cs run to their return one after the other, from the i-th on,
\* on the buffers mem.
RECURSIVE OneAfterTheOther(_, _, _)
OneAfterTheOther(mem, cs, i) ==
    IF i > Len(cs) THEN mem
    ELSE OneAfterTheOther(RunTransition(mem, [cs[i] EXCEPT !.pos = 0]), cs,
                          i + 1)

Reversed(cs) == [i \in DOMAIN cs |-> cs[Len(cs) + 1 - i]]

\* C21: a step of a transition call changes only pixel bytes of that call's
\* output frame; the bytes of the input frames, the metadata of all frames
\* and the rest of the program state stay as they were.  So when calls on
\* disjoint frame triples interleave pixel by pixel, the buffers end as if
\* the calls had run one after the other, in either order.
C21_TransitionsWriteOnlyOutput ==
    [][/\ \A a \in DOMAIN heap :
             heap'[a] # heap[a] =>
                \E i \in DOMAIN tcalls :
                    /\ tcalls'[i].pos # tcalls[i].pos
                    /\ InBuffer(tcalls[i].output, a)
       /\ \A i \in DOMAIN tcalls :
             /\ tcalls'[i].frame1 = tcalls[i].frame1
             /\ tcalls'[i].frame2 = tcalls[i].frame2
             /\ tcalls'[i].output = tcalls[i].output
       /\ UNCHANGED <<poolVars, chainVars, engineVars, job>>
       /\ (\A i \in DOMAIN tcalls' : Finished(tcalls'[i])) =>
             /\ heap' = OneAfterTheOther(tstart', tcalls', 1)
             /\ heap' = OneAfterTheOther(tstart', Reversed(tcalls'), 1)]_vars

\* Two calls of different transitions ran pixel by pixel in turns and both
\* have returned.
C21_Witness ==
    /\ Len(tcalls) = MaxConcurrent
    /\ \A i \in DOMAIN tcalls : Finished(tcalls[i]) /\ tcalls[i].overlapped
    /\ tcalls[1].type = "FADE"
    /\ tcalls[2].type = "DISSOLVE"
    /\ heap # tstart

\* The pixel bytes of the frame f in the buffers mem.
Pixels(mem, f) ==
    [k \in 1 .. (f.width * f.height * BytesPerPixel) |-> mem[f.data + k - 1]]

\* The call c has gone through all its pixels.
Completed(c) == ~c.null_arg /\ c.pos = c.width * c.height

\* C22: for equally sized RGBA frames A and B, transition_fade with
\* progress 0 leaves an output that is byte for byte A, in all four
\* channels, and with progress 1 an output that is byte for byte B.
C22_FadeEndpoints ==
    \A i \in DOMAIN tcalls :
        LET c == tcalls[i] IN
        (c.type = "FADE" /\ Completed(c)) =>
            /\ c.raw_progress = 0 =>
                  Pixels(heap, c.output) = Pixels(heap, c.frame1)
            /\ c.raw_progress = ProgressSteps =>
                  Pixels(heap, c.output) = Pixels(heap, c.frame2)

\* A fade with progress 1 over frames that differ in every byte returned.
C22_Witness ==
    /\ Len(tcalls) = 1
    /\ tcalls[1].type = "FADE"
    /\ Completed(tcalls[1])
    /\ tcalls[1].raw_progress = ProgressSteps
    /\ Pixels(heap, tcalls[1].output) = Pixels(heap, tcalls[1].frame2)
    /\ \A k \in 1 .. Len(Pixels(heap, tcalls[1].frame1)) :
          Pixels(heap, tcalls[1].frame1)[k] # Pixels(heap, tcalls[1].frame2)[k]

\* The four bytes of the pixel (x, y) of the frame f.
PixelAt(mem, f, x, y) ==
    [ch \in 1 .. BytesPerPixel |->
        mem[f.data + (y * f.width + x) * BytesPerPixel + ch - 1]]

\* The pixels (x, y) the call c has written so far.
Written(c) ==
    {xy \in (0 .. (c.width - 1)) \X (0 .. (c.height - 1)) :
        xy[2] * c.width + xy[1] < c.pos}

\* progress clamped to [0, 1], as a numerator over ProgressSteps.
Clamped(p) == IF p < 0 THEN 0 ELSE IF p > ProgressSteps THEN ProgressSteps ELSE p

\* C23: the output of transition_dissolve is a function of A, B and
\* progress alone: the pixel at (x, y) is B's pixel when progress * 100
\* exceeds (31 * x + 17 * y) mod 100 and A's pixel otherwise, so equal
\* inputs give equal outputs and every output pixel is A's or B's pixel at
\* the same place.
C23_DissolveIsThresholdChoice ==
    \A i \in DOMAIN tcalls :
        LET c == tcalls[i] IN
        (c.type = "DISSOLVE" /\ ~c.null_arg) =>
            \A xy \in Written(c) :
                PixelAt(heap, c.output, xy[1], xy[2]) =
                    IF Clamped(c.raw_progress) * 100 >
                          ((31 * xy[1] + 17 * xy[2]) % 100) * ProgressSteps
                    THEN PixelAt(heap, c.frame2, xy[1], xy[2])
                    ELSE PixelAt(heap, c.frame1, xy[1], xy[2])

\* A dissolve at progress 1/4 returned: the pixel at (3, 1), whose threshold
\* 110 mod 100 = 10 lies below 25, came from B, its neighbour (2, 1) with
\* threshold 79 from A.
C23_Witness ==
    /\ Len(tcalls) = 1
    /\ tcalls[1].type = "DISSOLVE"
    /\ Completed(tcalls[1])
    /\ tcalls[1].raw_progress = 1
    /\ tcalls[1].width = 4 /\ tcalls[1].height = 2
    /\ PixelAt(heap, tcalls[1].output, 3, 1) =
          PixelAt(heap, tcalls[1].frame2, 3, 1)
    /\ PixelAt(heap, tcalls[1].output, 2, 1) =
          PixelAt(heap, tcalls[1].frame1, 2, 1)
    /\ PixelAt(heap, tcalls[1].frame1, 3, 1) #
          PixelAt(heap, tcalls[1].frame2, 3, 1)

\* The pixel (x, y) lies on the side the wipe has revealed, b being the
\* boundary.
Revealed(type, x, y, width, height, b) ==
    CASE type = "WIPE_LEFT" -> x < b
      [] type = "WIPE_RIGHT" -> x >= width - b
      [] type = "WIPE_DOWN" -> y < b
      [] type = "WIPE_UP" -> y >= height - b

\* C24: for each wipe, with progress clamped to [0, 1] and the boundary
\* b = floor(progress * extent) (extent: width for left / right, height for
\* up / down), an output pixel is B's pixel on the revealed side and A's
\* pixel elsewhere; so progress <= 0 gives A and progress >= 1 gives B.
C24_WipeBoundary ==
    \A i \in DOMAIN tcalls :
        LET c == tcalls[i]
            extent == IF c.type \in {"WIPE_LEFT", "WIPE_RIGHT"}
                      THEN c.width ELSE c.height
            b == (Clamped(c.raw_progress) * extent) \div ProgressSteps
        IN (c.type \in {"WIPE_LEFT", "WIPE_RIGHT", "WIPE_UP", "WIPE_DOWN"}
            /\ ~c.null_arg) =>
              /\ \A xy \in Written(c) :
                    PixelAt(heap, c.output, xy[1], xy[2]) =
                        IF Revealed(c.type, xy[1], xy[2], c.width, c.height, b)
                        THEN PixelAt(heap, c.frame2, xy[1], xy[2])
                        ELSE PixelAt(heap, c.frame1, xy[1], xy[2])
              /\ (Completed(c) /\ c.raw_progress <= 0) =>
                    Pixels(heap, c.output) = Pixels(heap, c.frame1)
              /\ (Completed(c) /\ c.raw_progress >= ProgressSteps) =>
                    Pixels(heap, c.output) = Pixels(heap, c.frame2)

\* A wipe to the right at progress 1/2 over three columns returned:
\* b = floor(1.5) = 1, so only the last column shows B.
C24_Witness ==
    /\ Len(tcalls) = 1
    /\ tcalls[1].type = "WIPE_RIGHT"
    /\ Completed(tcalls[1])
    /\ tcalls[1].raw_progress = 2
    /\ tcalls[1].width = 3
    /\ PixelAt(heap, tcalls[1].output, 2, 0) =
          PixelAt(heap, tcalls[1].frame2, 2, 0)
    /\ PixelAt(heap, tcalls[1].output, 1, 0) =
          PixelAt(heap, tcalls[1].frame1, 1, 0)
    /\ PixelAt(heap, tcalls[1].frame1, 1, 0) #
          PixelAt(heap, tcalls[1].frame2, 1, 0)

\* ========================================================== dispatch claims

\* C25: an enabled, active blur effect built with effect_create_blur(radius,
\* ...), radius >= 1, is dispatched to the box blur with that radius: the
\* dispatcher takes it for a blur, and a successful pass over a chain that
\* holds just this effect leaves the RGBA frame box-blurred with the
\* radius.
C25_BlurIsDispatched ==
    [][(/\ call'.op = "process_chain"
        /\ OnChainAndFrame(call')
        /\ call'.result
        /\ call'.frame_in.format = FORMAT_RGBA
        /\ Len(effects') = 1
        /\ effects'[1].radius >= 1
        /\ IsApplied(effects'[1], call'.t))
        => /\ DispatchTarget(effects'[1]) = "filter_blur"
           /\ call'.frame.data =
                 filter_blur(call'.frame_in.data, call'.frame_in.width,
                             call'.frame_in.height, call'.frame_in.format,
                             effects'[1].radius)]_vars

\* ======================================================= scratch claims

\* The pass of the last call went through the loop.
RanLoop(c) == OnChainAndFrame(c) /\ c.result /\ Len(c.log) > 0

\* C26: in every pass the first effect that is applied, whatever its index
\* in the chain, works directly on the caller's frame buffer, without a
\* copy; every later applied effect works on a scratch buffer that first
\* received a copy of the working buffer.
C26_FirstAppliedOnCallersFrame ==
    [][RanLoop(call') =>
          /\ call'.log[1].on = "frame"
          /\ ~call'.log[1].copied
          /\ \A k \in 2 .. Len(call'.log) :
                /\ call'.log[k].copied
                /\ call'.log[k].on \in {"t1", "t2"}]_vars

\* C27: during a pass, whenever the working buffer is copied into a scratch
\* buffer the destination is another buffer than the working buffer (by
\* name and by address), and two effects applied one after the other never
\* run on the same buffer: the scratch buffers alternate.
C27_ScratchBuffersAlternate ==
    [][RanLoop(call') =>
          /\ temp_frame_1'.data # temp_frame_2'.data
          /\ \A k \in 1 .. Len(call'.log) :
                call'.log[k].copied =>
                    /\ call'.log[k].dst # call'.log[k].src
                    /\ call'.log[k].on = call'.log[k].dst
          /\ \A k \in 1 .. (Len(call'.log) - 1) :
                call'.log[k].on # call'.log[k + 1].on]_vars

\* A pass applied three effects, the first behind a skipped one: they ran
\* on scratch 1, scratch 2 and scratch 1 again.
C27_Witness ==
    /\ RanLoop(call)
    /\ Len(call.log) = 3
    /\ call.log[1].on = "t1"
    /\ call.log[2].on = "t2"
    /\ call.log[3].on = "t1"

\* C28: for every frame a pass accepts (any width > 0 and height > 0), the
\* bytes copied into a scratch buffer and the bytes an effect works on in a
\* scratch buffer are no more than the bytes of a pool block, so that both
\* stay inside the scratch buffer's block.
C28_ScratchWritesInsideBlock ==
    [][RanLoop(call') =>
          \A k \in 1 .. Len(call'.log) :
              call'.log[k].on \in {"t1", "t2"} =>
                  /\ call'.log[k].copied_bytes <= BlockSize
                  /\ call'.log[k].width * call'.log[k].height * BytesPerPixel
                        <= BlockSize]_vars

\* C29: a pass that fails because the scratch buffers cannot be acquired
\* leaves the pool as it was before the call: the same blocks are marked in
\* use and the same number of blocks is free.
C29_FailedAcquireLeavesPool ==
    [][(OnChainAndFrame(call') /\ Len(effects) > 0 /\ AcquireFails)
        => (/\ ~call'.result
            /\ used_blocks' = used_blocks
            /\ used_count' = used_count)]_vars

\* C30: in every pass on a chain, each scratch frame an effect is applied
\* to has the width, the height and the stride of the frame the pass
\* processes, also when earlier passes on the chain processed frames of
\* other dimensions.
C30_ScratchHasFrameDimensions ==
    [][RanLoop(call') =>
          \A k \in 1 .. Len(call'.log) :
              call'.log[k].on \in {"t1", "t2"} =>
                  /\ call'.log[k].width = call'.frame_in.width
                  /\ call'.log[k].height = call'.frame_in.height
                  /\ call'.log[k].stride = call'.frame_in.stride]_vars

====
